---- MODULE Spec2Model ----
(***************************************************************************)
(* Model of the OAuth 2.0 authorization subsystem of ical-mcp: dynamic     *)
(* client registration, GET/POST /oauth/authorize, POST /oauth/token, the  *)
(* /mcp route of the Durable Object and the bearer middleware, over the    *)
(* Durable Object's key-value storage.                                     *)
(*                                                                         *)
(* JavaScript objects are functions with string domains: a property that   *)
(* is absent (undefined) is a name outside DOMAIN.  A handler is an        *)
(* operator from the storage and its request to the new storage and the    *)
(* response; an action applies it to the program's run and, with the same  *)
(* environment choices, to a twin run in which only the submitted upstream *)
(* secrets differ.                                                         *)
(***************************************************************************)
EXTENDS Integers, Sequences, FiniteSets, TLC

(***************************************************************************)
(* Bounds of the model                                                     *)
(***************************************************************************)
MaxRequests == 4    \* requests that write to the storage: registrations, authorizations, submissions
MaxToken == 2       \* POST /oauth/token requests in flight together
MaxTicks == 1       \* steps of the clock
MaxUris == 3         \* redirect URIs in one list given to validateRedirectUris
MaxNonces == 4      \* nonces drawn by calls of encrypt on its own
TickMs == 600001    \* milliseconds the clock advances in one step

\* JavaScript's null/undefined where a string is expected
NULL == "<null>"

\* JavaScript's null/undefined where an object is expected
Null == [null |-> TRUE]

(***************************************************************************)
(* src/oauth/constants.ts and src/oauth/types.ts                           *)
(***************************************************************************)
AUTH_CODE_EXPIRY_MS == 10 * 60 * 1000
PENDING_AUTH_EXPIRY_MS == 10 * 60 * 1000
AES_KEY_BYTES == 32
DEFAULT_SCOPE == "calendar:read calendar:write"

CLIENT_PREFIX == "client:"
SESSION_PREFIX == "session:"
USER_PREFIX == "user:"
AUTH_CODE_PREFIX == "authcode:"
PENDING_PREFIX == "pending:"

\* `${prefix}${id}`: the prefixes are distinct and none is a prefix of another,
\* so the pair determines the concatenation and conversely
Key(prefix, id) == <<prefix, id>>

(***************************************************************************)
(* The URIs of the model and what `new URL(uri)` makes of them             *)
(***************************************************************************)
ClaudeAi == "https://claude.ai/api/mcp/auth_callback"
ClaudeCom == "https://claude.com/api/mcp/auth_callback"
AgentExample == "https://agent.example/callback"
Localhost == "http://localhost:3000/cb"
LocalhostUpper == "http://LOCALHOST:3000/cb"
EvilExample == "http://evil.example/steal"
NotAUrl == "not a url"

\* URL.canParse(uri)
CanParse(uri) == uri # NotAUrl

\* new URL(uri).hostname: the parser lower-cases the host
Hostname(uri) ==
  CASE uri \in {ClaudeAi} -> "claude.ai"
    [] uri \in {ClaudeCom} -> "claude.com"
    [] uri \in {AgentExample} -> "agent.example"
    [] uri \in {Localhost, LocalhostUpper} -> "localhost"
    [] uri \in {EvilExample} -> "evil.example"

\* new URL(uri).protocol
Protocol(uri) ==
  IF uri \in {ClaudeAi, ClaudeCom, AgentExample} THEN "https:" ELSE "http:"

\* new URL(uri).toString() without its query: the serialisation lower-cases the host
Href(uri) == IF uri = LocalhostUpper THEN Localhost ELSE uri

(***************************************************************************)
(* src/oauth/utils.ts                                                      *)
(***************************************************************************)
\* `${prefix}_${crypto.randomUUID()}`: the n-th UUID drawn
generatePrefixedId(prefix, n) == prefix \o "_" \o ToString(n)

\* Buffer.from(crypto.getRandomValues(...)).toString('base64url'): the n-th token drawn
generateSecureToken(n) == "tok_" \o ToString(n)

\* Response.json(data, {status})
jsonResponse(data, status) == [type |-> "json", status |-> status, body |-> data]

\* new Response(html, {status: 200, headers: {'Content-Type': 'text/html'}})
htmlResponse(html) == [type |-> "html", status |-> 200, body |-> html]

\* a read of the field that lets the empty string through
getRequiredFormFieldPresent(formData, field) ==
  IF field \in DOMAIN formData THEN formData[field] ELSE NULL

\* formData.get(field), a string of positive length, or null
getRequiredFormField(formData, field) ==
  IF field \in DOMAIN formData /\ formData[field] # "" THEN formData[field] ELSE NULL

\* null as soon as one of the fields is missing or empty
getRequiredFormFields(formData, fields) ==
  IF \E f \in fields : getRequiredFormField(formData, f) = NULL
  THEN Null
  ELSE [f \in fields |-> formData[f]]

(***************************************************************************)
(* src/oauth/register.ts                                                   *)
(***************************************************************************)
\* the handler threw: the promise of the handler rejects with `error`
Thrown(error) == [type |-> "throw", error |-> error]

createOAuthErrorResponse(error, description, status) ==
  jsonResponse([error |-> error, error_description |-> description], status)

ALLOWED_CALLBACKS == {ClaudeAi, ClaudeCom}

\* a validation that is content with one acceptable URI
validateRedirectUrisSome(uris) ==
  \E i \in 1..Len(uris) :
    /\ CanParse(uris[i])
    /\ \/ Hostname(uris[i]) = "localhost"
       \/ Protocol(uris[i]) = "https:" /\ uris[i] \in ALLOWED_CALLBACKS

validateRedirectUris(uris) ==
  IF Len(uris) = 0
  THEN FALSE
  ELSE \A i \in 1..Len(uris) :
         /\ CanParse(uris[i])
         /\ \/ Hostname(uris[i]) = "localhost"
            \/ Protocol(uris[i]) = "https:" /\ uris[i] \in ALLOWED_CALLBACKS

\* crypto.randomUUID(): the n-th UUID drawn
\* a client id that is the same at every call
generateClientIdFixed(n) == "uuid_1"

generateClientId(n) == "uuid_" \o ToString(n)

\* 32 random bytes, base64url: the n-th secret drawn
generateClientSecret(n) == "secret_" \o ToString(n)

\* storage.get(`client:${clientId}`) ?? null
getRegisteredClient(clientId, storage) ==
  IF Key(CLIENT_PREFIX, clientId) \in DOMAIN storage
  THEN storage[Key(CLIENT_PREFIX, clientId)]
  ELSE Null

\* storage.put(key, value)
Put(storage, key, value) ==
  [k \in DOMAIN storage \cup {key} |-> IF k = key THEN value ELSE storage[k]]

\* storage.delete(key)
Delete(storage, key) == [k \in DOMAIN storage \ {key} |-> storage[k]]

\* a request body that is not JSON: request.json() rejects with a SyntaxError
NotJson == [notjson |-> TRUE]

\* the JSON string `str` where an array is expected: a value with a length
\* and without every()
JsonString(str) == <<"<string>", str>>
IsArray(value) == Len(value) = 0 \/ value[1] # "<string>"

\* a record that keeps a digest of the secret
RegisteredClientDigest(clientId, clientSecret, body, t) ==
  [clientId |-> clientId,
   clientSecret |-> "sha256(" \o clientSecret \o ")",
   redirectUris |-> body.redirect_uris,
   clientName |-> IF "client_name" \in DOMAIN body THEN body.client_name ELSE "Unknown",
   createdAt |-> t]

\* the record stored under client:<clientId>
RegisteredClient(clientId, clientSecret, body, t) ==
  [clientId |-> clientId,
   clientSecret |-> clientSecret,
   redirectUris |-> body.redirect_uris,
   clientName |-> IF "client_name" \in DOMAIN body THEN body.client_name ELSE "Unknown",
   createdAt |-> t]

\* POST /oauth/register with the body `body`, at time t, drawing the n-th
\* identifiers.  await request.json() throws on a body that is not JSON, and
\* validateRedirectUris throws at uris.every() on a non-empty string.
handleRegister(storage, body, t, n) ==
  IF body = NotJson
  THEN [storage |-> storage, resp |-> Thrown("SyntaxError")]
  ELSE IF "redirect_uris" \notin DOMAIN body
  THEN [storage |-> storage,
        resp |-> createOAuthErrorResponse("invalid_request", "Invalid redirect_uri", 400)]
  ELSE IF ~IsArray(body.redirect_uris)
  THEN [storage |-> storage, resp |-> Thrown("TypeError")]
  ELSE IF ~validateRedirectUris(body.redirect_uris)
  THEN [storage |-> storage,
        resp |-> createOAuthErrorResponse("invalid_request", "Invalid redirect_uri", 400)]
  ELSE LET clientId == generateClientId(n)
           clientSecret == generateClientSecret(n)
           clientName == IF "client_name" \in DOMAIN body THEN body.client_name ELSE "Unknown"
           client == RegisteredClient(clientId, clientSecret, body, t)
       IN [storage |-> Put(storage, Key(CLIENT_PREFIX, clientId), client),
           resp |-> jsonResponse([client_id |-> clientId,
                                  client_secret |-> clientSecret,
                                  redirect_uris |-> body.redirect_uris,
                                  client_name |-> clientName,
                                  client_id_issued_at |-> t \div 1000,
                                  grant_types |-> <<"authorization_code", "refresh_token">>,
                                  token_endpoint_auth_method |-> "client_secret_post",
                                  response_types |-> <<"code">>], 201)]

(***************************************************************************)
(* src/oauth/crypto.ts                                                     *)
(***************************************************************************)
\* the key the tests supply (generateEncryptionKey(): 32 random bytes, base64)
TEST_ENCRYPTION_KEY == "key_A"

\* another result of generateEncryptionKey(), and a key of 16 bytes
OTHER_ENCRYPTION_KEY == "key_B"
SHORT_ENCRYPTION_KEY == "key_short"

\* a key of 33 bytes, and the empty string, which decodes to no byte
LONG_ENCRYPTION_KEY == "key_long"
EMPTY_ENCRYPTION_KEY == ""

\* Buffer.from(keyBase64, 'base64').length
KeyBytes(keyBase64) ==
  CASE keyBase64 \in {TEST_ENCRYPTION_KEY, OTHER_ENCRYPTION_KEY} -> 32
    [] keyBase64 = LONG_ENCRYPTION_KEY -> 33
    [] keyBase64 = EMPTY_ENCRYPTION_KEY -> 0
    [] OTHER -> 16

\* importKey without its check of the length: crypto.subtle.importKey takes
\* the three key sizes of AES and refuses the others with a DataError
importKeyAesSizes(keyBase64) ==
  IF keyBase64 = NULL THEN "TypeError"
  ELSE IF KeyBytes(keyBase64) \notin {16, 24, 32} THEN "DataError"
  ELSE "ok"

\* importKey: "ok", or the error it throws.  Buffer.from(undefined, 'base64')
\* throws a TypeError before the length is looked at.
importKey(keyBase64) ==
  IF keyBase64 = NULL THEN "TypeError"
  ELSE IF KeyBytes(keyBase64) # AES_KEY_BYTES THEN "Encryption key must be 256 bits (32 bytes)"
  ELSE "ok"

\* strings that UTF-8 does not carry through unchanged: one that begins
\* with the byte order mark U+FEFF, one that ends in a lone surrogate
BomPlaintext == "(U+FEFF)secret"
LoneSurrogatePlaintext == "secret(U+D83D)"

\* new TextEncoder().encode(plaintext), written as the string of the scalar
\* values encoded: a lone surrogate is encoded as U+FFFD
TextEncode(plaintext) ==
  IF plaintext = LoneSurrogatePlaintext THEN "secret(U+FFFD)" ELSE plaintext

\* new TextDecoder().decode(bytes): a byte order mark at the start is dropped
TextDecode(encoded) == IF encoded = BomPlaintext THEN "secret" ELSE encoded

\* encrypt with one nonce for every call
encryptFixedNonce(plaintext, keyBase64, n) ==
  [sealed |-> TRUE, iv |-> 0, key |-> keyBase64, plaintext |-> TextEncode(plaintext)]

\* base64(iv || AES-256-GCM(key, iv, plaintext)), the iv being the n-th nonce
\* drawn: a sealed blob that only names its plaintext
encrypt(plaintext, keyBase64, n) ==
  [sealed |-> TRUE, iv |-> n, key |-> keyBase64, plaintext |-> TextEncode(plaintext)]

\* a blob some byte of which was changed or cut off: the GCM tag no longer
\* authenticates it
Tamper(encrypted) == [encrypted EXCEPT !.sealed = FALSE]

\* decrypt without the check of the GCM tag
decryptUnauthenticated(encrypted, keyBase64) ==
  IF importKey(keyBase64) # "ok" THEN Thrown(importKey(keyBase64))
  ELSE [type |-> "ok", plaintext |-> TextDecode(encrypted.plaintext)]

\* decrypt: the plaintext, or the error thrown: the one of importKey, or the
\* OperationError of crypto.subtle.decrypt when the tag does not verify
\* under the key
decrypt(encrypted, keyBase64) ==
  IF importKey(keyBase64) # "ok" THEN Thrown(importKey(keyBase64))
  ELSE IF ~encrypted.sealed \/ encrypted.key # keyBase64 THEN Thrown("OperationError")
  ELSE [type |-> "ok", plaintext |-> TextDecode(encrypted.plaintext)]

(***************************************************************************)
(* src/oauth/templates.ts                                                  *)
(***************************************************************************)
ScopeAmp == "calendar:read&write"

\* & < > " replaced by entities; ScopeAmp is the one string of the model
\* that holds such a character
escapeHtml(str) == IF str = ScopeAmp THEN "calendar:read&amp;write" ELSE str

\* the interpolated parts of the page
renderAuthorizePage(pendingId, params, error) ==
  [clientDisplay |-> escapeHtml(params.client_id),
   scopeDisplay |-> IF "scope" \in DOMAIN params THEN escapeHtml(params.scope)
                    ELSE "calendar access",
   error |-> IF error # NULL THEN escapeHtml(error) ELSE "",
   pending_id |-> escapeHtml(pendingId)]

(***************************************************************************)
(* src/oauth/authorize.ts                                                  *)
(***************************************************************************)
\* URLSearchParams.get(name)
SearchParam(params, name) == IF name \in DOMAIN params THEN params[name] ELSE NULL

\* a string that is neither null nor empty
Truthy(str) == str # NULL /\ str # ""

RequiredParams == {"response_type", "client_id", "redirect_uri", "state"}
OptionalParams == {"scope", "code_challenge", "code_challenge_method"}

\* a parse that only asks for the parameters to be present
parseAuthorizationRequestPresent(params) ==
  IF \E name \in RequiredParams : SearchParam(params, name) = NULL
  THEN Null
  ELSE [name \in RequiredParams \cup
                   {o \in OptionalParams : Truthy(SearchParam(params, o))} |-> params[name]]

parseAuthorizationRequest(params) ==
  IF \E name \in RequiredParams : ~Truthy(SearchParam(params, name))
  THEN Null
  ELSE [name \in RequiredParams \cup
                   {o \in OptionalParams : Truthy(SearchParam(params, o))} |-> params[name]]

\* a user id that is the same at every call
generateUserIdFixed(n) == generatePrefixedId("user", 1)

generateUserId(n) == generatePrefixedId("user", n)
\* a pending id that is the same at every call
generatePendingIdFixed(n) == generatePrefixedId("pending", 1)

generatePendingId(n) == generatePrefixedId("pending", n)

\* a membership test that every value passes
IncludesAny(array, value) == TRUE

\* array.includes(value)
Includes(array, value) == \E i \in 1..Len(array) : array[i] = value

\* GET /oauth/authorize with the query `query`, at time t, drawing the n-th pending id
handleAuthorize(storage, query, t, n) ==
  LET params == parseAuthorizationRequest(query) IN
  IF params = Null
  THEN [storage |-> storage,
        resp |-> createOAuthErrorResponse("invalid_request", "Missing or invalid parameters", 400)]
  ELSE LET client == getRegisteredClient(params.client_id, storage) IN
       IF client = Null
       THEN [storage |-> storage,
             resp |-> createOAuthErrorResponse("invalid_client", "Unknown client_id", 400)]
       ELSE IF ~Includes(client.redirectUris, params.redirect_uri)
       THEN [storage |-> storage,
             resp |-> createOAuthErrorResponse("invalid_request", "Invalid redirect_uri", 400)]
       ELSE LET pendingId == generatePendingId(n) IN
            [storage |-> Put(storage, Key(PENDING_PREFIX, pendingId),
                             [params |-> params, createdAt |-> t]),
             resp |-> htmlResponse(renderAuthorizePage(pendingId, params, NULL))]

\* the upstream answers of the model: 207 Multi-Status, 401, or no answer at
\* all (fetch rejects and .catch(() => null) makes the response null)
UpstreamAnswers == {207, 401, 0}

\* response?.status === 207
UpstreamAccepts(answer) == answer = 207

\* a password with a character outside Latin-1 (the euro sign, U+20AC); the
\* strings of the model that hold such a character
PasswordWide == "p(U+20AC)ss-word"
WideStrings == {PasswordWide}

\* btoa(`${appleId}:${appPassword}`): the base64 of the bytes of a string of
\* Latin-1 characters; btoa throws InvalidCharacterError on any other
BasicCredentials(appleId, appPassword) ==
  IF appleId \in WideStrings \/ appPassword \in WideStrings
  THEN Thrown("InvalidCharacterError")
  ELSE [type |-> "ok", value |-> "base64(" \o appleId \o ":" \o appPassword \o ")"]

\* validateICloudCredentials(appleId, appPassword), the upstream answering
\* `answer`: what it returns, or what it throws
validateICloudCredentials(appleId, appPassword, answer) ==
  IF BasicCredentials(appleId, appPassword).type = "throw"
  THEN BasicCredentials(appleId, appPassword)
  ELSE [type |-> "ok", value |-> UpstreamAccepts(answer)]

\* no request in this slot (not yet arrived, or answered)
Idle == [kind |-> "idle", pc |-> "idle"]

\* no response sent in this step
NoResponse == [type |-> "none"]

\* Response.redirect(redirectUrl.toString(), 302), redirectUrl being
\* new URL(redirect_uri) with the query parameters code and state set
RedirectResponse(redirect_uri, code, state) ==
  [type |-> "redirect", status |-> 302,
   location |-> [url |-> Href(redirect_uri), code |-> code, state |-> state]]

\* handleAuthorizeSubmit up to the upstream call: the form is read and
\* state.storage.get(`pending:${pendingId}`) awaited; the request is answered
\* at once or is in flight
SubmitReceived(storage, formData, encryptionKey) ==
  LET fields == getRequiredFormFields(formData, {"pending_id", "apple_id", "app_password"}) IN
  IF fields = Null
  THEN [rq |-> Idle,
        resp |-> createOAuthErrorResponse("invalid_request", "Missing required form fields", 400)]
  ELSE IF Key(PENDING_PREFIX, fields.pending_id) \notin DOMAIN storage
  THEN [rq |-> Idle,
        resp |-> createOAuthErrorResponse("invalid_request", "Invalid or expired authorization", 400)]
  ELSE [rq |-> [kind |-> "submit", pc |-> "validate", fields |-> fields,
                encryptionKey |-> encryptionKey,
                pending |-> storage[Key(PENDING_PREFIX, fields.pending_id)],
                upstream |-> 0, userId |-> NULL, credentials |-> Null, code |-> NULL],
        resp |-> NoResponse]

\* a handler that names the account in its error message
SubmitInvalidCredentialsEcho(rq) ==
  htmlResponse(renderAuthorizePage(rq.fields.pending_id, rq.pending.params, rq.fields.apple_id))

\* the form again, with the error, when the upstream does not accept
SubmitInvalidCredentials(rq) ==
  htmlResponse(renderAuthorizePage(rq.fields.pending_id, rq.pending.params, "Invalid credentials"))

\* a record that identifies the user by the Apple ID
UserCredentialsByAppleId(userId, appleId, appPassword, encryptionKey, t, iv) ==
  [userId |-> appleId,
   appleId |-> encrypt(appleId, encryptionKey, iv + 1),
   appPassword |-> encrypt(appPassword, encryptionKey, iv + 2),
   createdAt |-> t,
   updatedAt |-> t]

\* the record stored under user:<userId>, the nonces drawn being iv + 1 and iv + 2
UserCredentials(userId, appleId, appPassword, encryptionKey, t, iv) ==
  [userId |-> userId,
   appleId |-> encrypt(appleId, encryptionKey, iv + 1),
   appPassword |-> encrypt(appPassword, encryptionKey, iv + 2),
   createdAt |-> t,
   updatedAt |-> t]

\* await validateICloudCredentials(appleId, appPassword), the upstream
\* answering `answer`, then generateUserId() and the two awaits of encrypt(),
\* in which importKey throws on a bad key: no storage is touched up to the put
SubmitValidate(storage, rq, answer, t, drawn) ==
  LET isValid == validateICloudCredentials(rq.fields.apple_id, rq.fields.app_password, answer) IN
  IF isValid.type = "throw"
  THEN [storage |-> storage, rq |-> Idle, resp |-> isValid]
  ELSE IF ~isValid.value
  THEN [storage |-> storage, rq |-> Idle, resp |-> SubmitInvalidCredentials(rq)]
  ELSE IF importKey(rq.encryptionKey) # "ok"
  THEN [storage |-> storage, rq |-> Idle, resp |-> Thrown(importKey(rq.encryptionKey))]
  ELSE LET userId == generateUserId(drawn.user + 1) IN
       [storage |-> storage,
        rq |-> [rq EXCEPT !.pc = "put_user", !.upstream = answer, !.userId = userId,
                          !.credentials = UserCredentials(userId, rq.fields.apple_id,
                                            rq.fields.app_password, rq.encryptionKey, t, drawn.iv)],
        resp |-> NoResponse]

\* a handler that goes on to the code without storing the credentials
SubmitPutUserSkipped(storage, rq) ==
  [storage |-> storage, rq |-> [rq EXCEPT !.pc = "put_code"], resp |-> NoResponse]

\* await state.storage.put(`user:${userId}`, credentials)
SubmitPutUser(storage, rq) ==
  [storage |-> Put(storage, Key(USER_PREFIX, rq.userId), rq.credentials),
   rq |-> [rq EXCEPT !.pc = "put_code"],
   resp |-> NoResponse]

\* a record that keeps the redirect URI as new URL() serialises it
AuthorizationCodeNormalized(code, params, userId, t) ==
  [code |-> code,
   clientId |-> params.client_id,
   redirectUri |-> Href(params.redirect_uri),
   userId |-> userId,
   scope |-> IF "scope" \in DOMAIN params THEN params.scope ELSE DEFAULT_SCOPE,
   expiresAt |-> t + AUTH_CODE_EXPIRY_MS,
   createdAt |-> t]

\* an authorization code whose challenge method is always S256
AuthorizationCodeS256(code, params, userId, t) ==
  LET authCode == [code |-> code,
                   clientId |-> params.client_id,
                   redirectUri |-> params.redirect_uri,
                   userId |-> userId,
                   scope |-> IF "scope" \in DOMAIN params THEN params.scope ELSE DEFAULT_SCOPE,
                   expiresAt |-> t + AUTH_CODE_EXPIRY_MS,
                   createdAt |-> t] IN
  IF "code_challenge" \in DOMAIN params
  THEN authCode @@ [codeChallenge |-> params.code_challenge, codeChallengeMethod |-> "S256"]
  ELSE authCode

\* the record stored under authcode:<code>
AuthorizationCode(code, params, userId, t) ==
  LET authCode == [code |-> code,
                   clientId |-> params.client_id,
                   redirectUri |-> params.redirect_uri,
                   userId |-> userId,
                   scope |-> IF "scope" \in DOMAIN params THEN params.scope ELSE DEFAULT_SCOPE,
                   expiresAt |-> t + AUTH_CODE_EXPIRY_MS,
                   createdAt |-> t] IN
  IF "code_challenge" \in DOMAIN params
  THEN authCode @@
       [codeChallenge |-> params.code_challenge,
        codeChallengeMethod |-> IF "code_challenge_method" \in DOMAIN params
                                THEN params.code_challenge_method ELSE "S256"]
  ELSE authCode

\* generateSecureToken(32) and await state.storage.put(`authcode:${code}`, authCode)
SubmitPutCode(storage, rq, t, rand) ==
  LET code == generateSecureToken(rand.code + 1) IN
  [storage |-> Put(storage, Key(AUTH_CODE_PREFIX, code),
                   AuthorizationCode(code, rq.pending.params, rq.userId, t)),
   rq |-> [rq EXCEPT !.pc = "delete_pending", !.code = code],
   resp |-> NoResponse]

\* await state.storage.delete(`pending:${pendingId}`) and the redirect to the client
SubmitDeletePending(storage, rq) ==
  [storage |-> Delete(storage, Key(PENDING_PREFIX, rq.fields.pending_id)),
   rq |-> Idle,
   resp |-> RedirectResponse(rq.pending.params.redirect_uri, rq.code, rq.pending.params.state)]

(***************************************************************************)
(* src/oauth/token.ts                                                      *)
(***************************************************************************)
\* POST /oauth/token: the request and the storage are not looked at
handleToken(storage, body) ==
  [storage |-> storage,
   resp |-> jsonResponse([error |-> "server_error", error_description |-> "Not implemented"], 501)]

(***************************************************************************)
(* src/mcp/protocol.ts, src/mcp/server.ts and src/auth/credentials.ts      *)
(***************************************************************************)
PARSE_ERROR == -32700
INVALID_REQUEST == -32600
METHOD_NOT_FOUND == -32601
INTERNAL_ERROR == -32603

\* a body that JSON.parse rejects
BadJson == [badjson |-> TRUE]

\* id ?? null
IdOrNull(message) == IF "id" \in DOMAIN message THEN message.id ELSE -1

createJsonRpcError(id, code) == [jsonrpc |-> "2.0", id |-> id, error |-> code]
createJsonRpcResponse(id, result) == [jsonrpc |-> "2.0", id |-> id, result |-> result]

\* the error code, or 0 when the message is a JSON-RPC request
parseJsonRpcMessage(json) ==
  IF json = BadJson THEN PARSE_ERROR
  ELSE IF "jsonrpc" \notin DOMAIN json \/ json.jsonrpc # "2.0" THEN INVALID_REQUEST
  ELSE IF "method" \notin DOMAIN json THEN INVALID_REQUEST
  ELSE 0

\* getCredentials(env) throws 'Auth not implemented': no credentials, no client
getCredentials == Null

\* the JSON-RPC handlers; client is Null when no CalDAV client could be made
routeRequest(request, client) ==
  CASE request.method = "initialize" -> createJsonRpcResponse(IdOrNull(request), "initialize")
    [] request.method = "notifications/initialized" -> createJsonRpcResponse(IdOrNull(request), "empty")
    [] request.method = "tools/list" -> createJsonRpcResponse(IdOrNull(request), "tools")
    [] request.method = "tools/call" ->
         IF client = Null
         THEN createJsonRpcError(IdOrNull(request), INTERNAL_ERROR)
         ELSE createJsonRpcResponse(IdOrNull(request), "call")
    [] OTHER -> createJsonRpcError(IdOrNull(request), METHOD_NOT_FOUND)

\* handleMcpRequest(request, env): the response, the JSON-RPC method handed
\* to routeRequest (NULL when none is) and the credentials of the CalDAV client
handleMcpRequest(request) ==
  IF request.method = "GET"
  THEN [resp |-> [type |-> "text", status |-> 405], routed |-> NULL, credentials |-> Null]
  ELSE IF request.method # "POST"
  THEN [resp |-> [type |-> "text", status |-> 405], routed |-> NULL, credentials |-> Null]
  ELSE IF ~request.acceptsJson
  THEN [resp |-> [type |-> "text", status |-> 400], routed |-> NULL, credentials |-> Null]
  ELSE IF parseJsonRpcMessage(request.body) # 0
  THEN [resp |-> jsonResponse(createJsonRpcError(-1, parseJsonRpcMessage(request.body)), 200),
        routed |-> NULL, credentials |-> Null]
  ELSE LET response == routeRequest(request.body, getCredentials) IN
       [resp |-> IF "id" \notin DOMAIN request.body
                 THEN [type |-> "empty", status |-> 202]
                 ELSE jsonResponse(response, 200),
        routed |-> request.body.method,
        credentials |-> getCredentials]

(***************************************************************************)
(* src/mcp-server.ts                                                       *)
(***************************************************************************)
\* the branch of McpServer.fetch for MCP_ENDPOINT: what was done for the
\* request.  validation is the result of validateToken for it, Null when
\* validateToken was not called.
McpEndpoint(request) ==
  LET handled == handleMcpRequest(request) IN
  [request |-> request,
   validation |-> Null,
   routed |-> handled.routed,
   credentials |-> handled.credentials,
   resp |-> handled.resp]

\* the encryption key McpServer.fetch hands to handleAuthorizeSubmit(request,
\* this.state): none, the third parameter is undefined
FetchEncryptionKey == NULL

(***************************************************************************)
(* The requests of the model                                               *)
(***************************************************************************)
AppleIdA == "alice@icloud.com"
AppleIdB == "bob@icloud.com"
PasswordA == "aaaa-aaaa-aaaa-aaaa"
PasswordB == "bbbb-bbbb-bbbb-bbbb"
Secrets == {AppleIdA, AppleIdB, PasswordA, PasswordB, PasswordWide}

\* the secret the twin run submits in the place of `secret`
TwinSecret(secret) ==
  CASE secret = AppleIdA -> AppleIdB
    [] secret = PasswordA -> PasswordB
    [] OTHER -> secret

TwinForm(formData) ==
  [f \in DOMAIN formData |->
     IF f \in {"apple_id", "app_password"} THEN TwinSecret(formData[f]) ELSE formData[f]]

RegisterBodies ==
  { NotJson,
    [client_name |-> "Claude"],
    [redirect_uris |-> JsonString(ClaudeAi)],
    [redirect_uris |-> <<ClaudeAi>>, client_name |-> "Claude"] } \cup
  { [redirect_uris |-> uris] :
      uris \in { <<>>, <<AgentExample>>, <<EvilExample>>, <<NotAUrl>>,
                 <<Localhost, LocalhostUpper>>, <<ClaudeAi, EvilExample>> } }

\* the client ids a request may name: the n registered ones and one that is not
ClientIds(n) == { generateClientId(i) : i \in 0..n }

AuthorizeQueries(n) ==
  LET Query(c, u) == [response_type |-> "code", client_id |-> c, redirect_uri |-> u, state |-> "xyz"]
      one == Query(generateClientId(n), ClaudeAi)
  IN { Query(c, u) : c \in ClientIds(n), u \in {ClaudeAi, LocalhostUpper} }
     \cup { Query(c, ClaudeAi) @@ [scope |-> ScopeAmp, code_challenge |-> "challenge"] :
              c \in ClientIds(n) }
     \cup { Query(c, Localhost) @@ [code_challenge |-> "challenge", code_challenge_method |-> "plain"] :
              c \in ClientIds(n) }
     \cup { [name \in RequiredParams \ {missing} |-> one[name]] : missing \in RequiredParams }
     \cup { [one EXCEPT !.state = ""] }
     \cup { one @@ [code_challenge_method |-> "plain"] }

\* the pending ids a form may name: the n minted ones and one that never was
PendingIds(n) == { generatePendingId(i) : i \in 0..n }

SubmitForms(n) ==
  { [pending_id |-> p, apple_id |-> a, app_password |-> PasswordA] :
      p \in PendingIds(n), a \in {AppleIdA, ""} }
  \cup { [pending_id |-> p, apple_id |-> AppleIdA] : p \in PendingIds(n) }
  \cup { [apple_id |-> AppleIdA, app_password |-> PasswordA] }
  \cup { [pending_id |-> generatePendingId(n), apple_id |-> AppleIdA, app_password |-> PasswordWide] }

\* the key handleAuthorizeSubmit is given: the one of McpServer.fetch, or the
\* one a direct caller (test/oauth/authorize.test.ts) supplies
EncryptionKeys == {FetchEncryptionKey, TEST_ENCRYPTION_KEY}

\* the codes a token request may name: the n minted ones and one that never was
Codes(n) == { generateSecureToken(i) : i \in 0..n }

TokenBodies(nCodes, nClients) ==
  { [grant_type |-> "authorization_code", code |-> c, redirect_uri |-> u,
     client_id |-> generateClientId(nClients)] :
      c \in Codes(nCodes), u \in {ClaudeAi, Localhost} }
  \cup { [grant_type |-> g, client_id |-> generateClientId(nClients), refresh_token |-> "tok_0"] :
           g \in {"refresh_token", "password"} }

McpRequests ==
  [method : {"GET", "POST", "DELETE"},
   acceptsJson : BOOLEAN,
   authorization : {NULL, "Bearer tok_1", "Bearer ", "Basic dXNlcg=="},
   body : {BadJson,
           [jsonrpc |-> "1.0", method |-> "initialize", id |-> 1],
           [jsonrpc |-> "2.0", id |-> 1],
           [jsonrpc |-> "2.0", method |-> "initialize", id |-> 1],
           [jsonrpc |-> "2.0", method |-> "notifications/initialized"],
           [jsonrpc |-> "2.0", method |-> "tools/list", id |-> 2],
           [jsonrpc |-> "2.0", method |-> "tools/call", id |-> 3],
           [jsonrpc |-> "2.0", method |-> "resources/list", id |-> 4]}]

(***************************************************************************)
(* The state                                                               *)
(***************************************************************************)
VARIABLES
  storage,        \* state.storage of the Durable Object: key |-> record
  reqs,           \* the POST /oauth/authorize requests in flight, in order of arrival: their locals
  tokenReqs,      \* the POST /oauth/token requests, in order of arrival, and how each was answered
  resp,           \* the response sent in the last step, NoResponse if none
  answered,       \* the POST /oauth/authorize request answered in the last step, Null if none
  twin,           \* the run that differs only in the secrets submitted: [storage, reqs, resp]
  now,            \* Date.now()
  rand,           \* how many client ids, pending ids, user ids, codes and nonces were drawn
  arrived,        \* how many requests that write to the storage have arrived
  authorizeQuery, \* history: pending id |-> the query of the GET /oauth/authorize that stored it
  codePending,    \* history: code |-> the pending id whose submission minted it
  mcp,            \* what McpServer.fetch did for the last /mcp request, Null if none
  call            \* the last call of an exported function on its own: arguments and result, Null if none

vars == <<storage, reqs, tokenReqs, resp, answered, twin, now, rand, arrived,
          authorizeQuery, codePending, mcp, call>>

\* storage without a record: the function of the empty domain
EmptyStorage == [k \in {} |-> Null]

Init ==
  /\ storage = EmptyStorage
  /\ reqs = <<>>
  /\ tokenReqs = <<>>
  /\ resp = NoResponse
  /\ answered = Null
  /\ twin = [storage |-> EmptyStorage, reqs |-> <<>>, resp |-> NoResponse]
  /\ now = 0
  /\ rand = [client |-> 0, pending |-> 0, user |-> 0, code |-> 0, iv |-> 0]
  /\ arrived = 0
  /\ authorizeQuery = EmptyStorage
  /\ codePending = EmptyStorage
  /\ mcp = Null
  /\ call = Null

(***************************************************************************)
(* The operations                                                          *)
(***************************************************************************)
SetAt(seq, i, value) == [seq EXCEPT ![i] = value]

\* POST /oauth/register
Register(body) ==
  /\ arrived < MaxRequests
  /\ LET a == handleRegister(storage, body, now, rand.client + 1)
         b == handleRegister(twin.storage, body, now, rand.client + 1)
         stored == a.resp.type = "json" /\ a.resp.status = 201
     IN /\ storage' = a.storage
        /\ resp' = a.resp
        /\ twin' = [twin EXCEPT !.storage = b.storage, !.resp = b.resp]
        /\ rand' = IF stored THEN [rand EXCEPT !.client = @ + 1] ELSE rand
        /\ arrived' = IF stored THEN arrived + 1 ELSE arrived
  /\ answered' = Null
  /\ UNCHANGED <<reqs, tokenReqs, now, authorizeQuery, codePending, mcp, call>>

\* GET /oauth/authorize
Authorize(query) ==
  /\ arrived < MaxRequests
  /\ LET a == handleAuthorize(storage, query, now, rand.pending + 1)
         b == handleAuthorize(twin.storage, query, now, rand.pending + 1)
         stored == a.resp.type = "html"
     IN /\ storage' = a.storage
        /\ resp' = a.resp
        /\ twin' = [twin EXCEPT !.storage = b.storage, !.resp = b.resp]
        /\ rand' = IF stored THEN [rand EXCEPT !.pending = @ + 1] ELSE rand
        /\ arrived' = IF stored THEN arrived + 1 ELSE arrived
        /\ authorizeQuery' = IF stored
                             THEN Put(authorizeQuery, generatePendingId(rand.pending + 1), query)
                             ELSE authorizeQuery
  /\ answered' = Null
  /\ UNCHANGED <<reqs, tokenReqs, now, codePending, mcp, call>>

\* POST /oauth/authorize arrives, through McpServer.fetch or as a call of
\* handleAuthorizeSubmit with a key, and runs up to the upstream call
SubmitArrive(formData, encryptionKey) ==
  /\ arrived < MaxRequests
  /\ LET a == SubmitReceived(storage, formData, encryptionKey)
         b == SubmitReceived(twin.storage, TwinForm(formData), encryptionKey)
     IN /\ reqs' = IF a.rq = Idle THEN reqs ELSE Append(reqs, a.rq)
        /\ resp' = a.resp
        /\ twin' = [twin EXCEPT !.reqs = IF a.rq = Idle THEN @ ELSE Append(@, b.rq),
                                !.resp = b.resp]
        /\ arrived' = IF a.rq = Idle THEN arrived ELSE arrived + 1
  /\ answered' = Null
  /\ UNCHANGED <<storage, tokenReqs, now, rand, authorizeQuery, codePending, mcp, call>>

\* handleAuthorizeSubmit from one await of the upstream or the storage to the next
SubmitStep(st, rq, answer, t, drawn) ==
  CASE rq.pc = "validate" -> SubmitValidate(st, rq, answer, t, drawn)
    [] rq.pc = "put_user" -> SubmitPutUser(st, rq)
    [] rq.pc = "put_code" -> SubmitPutCode(st, rq, t, drawn)
    [] rq.pc = "delete_pending" -> SubmitDeletePending(st, rq)
    [] OTHER -> [storage |-> st, rq |-> rq, resp |-> NoResponse]

\* request i of the program, and request i of the twin, take their next step
Step(i, answer) ==
  LET a == SubmitStep(storage, reqs[i], answer, now, rand)
      b == SubmitStep(twin.storage, twin.reqs[i], answer, now, rand)
      pc == reqs[i].pc
      isValid == validateICloudCredentials(reqs[i].fields.apple_id, reqs[i].fields.app_password, answer)
  IN /\ storage' = a.storage
     /\ reqs' = SetAt(reqs, i, a.rq)
     /\ resp' = a.resp
     /\ answered' = IF a.rq = Idle
                    THEN [request |-> i, pending_id |-> reqs[i].fields.pending_id,
                          params |-> reqs[i].pending.params, code |-> reqs[i].code,
                          upstream |-> IF pc # "validate" THEN reqs[i].upstream
                                       ELSE IF isValid.type = "throw" THEN 0 ELSE answer]
                    ELSE Null
     /\ twin' = [storage |-> b.storage, reqs |-> SetAt(twin.reqs, i, b.rq), resp |-> b.resp]
     /\ rand' = [rand EXCEPT
                   !.user = IF pc = "validate" /\ isValid.type = "ok" /\ isValid.value THEN @ + 1 ELSE @,
                   !.iv = IF pc = "validate" /\ a.rq # Idle THEN @ + 2 ELSE @,
                   !.code = IF pc = "put_code" THEN @ + 1 ELSE @]
     /\ codePending' = IF pc = "put_code"
                       THEN Put(codePending, a.rq.code, reqs[i].fields.pending_id)
                       ELSE codePending
     /\ UNCHANGED <<tokenReqs, now, arrived, authorizeQuery, mcp, call>>

Validate(i, answer) == reqs[i].pc = "validate" /\ Step(i, answer)
PutUser(i) == reqs[i].pc = "put_user" /\ Step(i, 0)
PutCode(i) == reqs[i].pc = "put_code" /\ Step(i, 0)
DeletePending(i) == reqs[i].pc = "delete_pending" /\ Step(i, 0)

\* POST /oauth/token, answered before another request arrives
Token(body) ==
  /\ LET a == handleToken(storage, body)
         b == handleToken(twin.storage, body)
     IN /\ storage' = a.storage
        /\ resp' = a.resp
        /\ twin' = [twin EXCEPT !.storage = b.storage, !.resp = b.resp]
  /\ answered' = Null
  /\ UNCHANGED <<reqs, tokenReqs, now, rand, arrived, authorizeQuery, codePending, mcp, call>>

\* history: the record under authcode:<code> for the code a token request
\* names, Null when it names none or none is stored
StoredCode(st, body) ==
  IF "code" \in DOMAIN body /\ Key(AUTH_CODE_PREFIX, body.code) \in DOMAIN st
  THEN st[Key(AUTH_CODE_PREFIX, body.code)]
  ELSE Null

\* POST /oauth/token arrives; overlaps are the requests not yet answered
TokenArrive(body) ==
  /\ Len(tokenReqs) < MaxToken
  /\ tokenReqs' = Append(tokenReqs,
                    [kind |-> "token", pc |-> "received", body |-> body, resp |-> NoResponse,
                     overlaps |-> { i \in 1..Len(tokenReqs) : tokenReqs[i].pc = "received" },
                     stored |-> Null, at |-> 0])
  /\ resp' = NoResponse
  /\ answered' = Null
  /\ twin' = [twin EXCEPT !.resp = NoResponse]
  /\ UNCHANGED <<storage, reqs, now, rand, arrived, authorizeQuery, codePending, mcp, call>>

\* handleToken answers request i
TokenHandle(i) ==
  /\ tokenReqs[i].pc = "received"
  /\ LET a == handleToken(storage, tokenReqs[i].body)
         b == handleToken(twin.storage, tokenReqs[i].body)
     IN /\ storage' = a.storage
        /\ resp' = a.resp
        /\ twin' = [twin EXCEPT !.storage = b.storage, !.resp = b.resp]
        /\ tokenReqs' = SetAt(tokenReqs, i,
                           [tokenReqs[i] EXCEPT !.pc = "answered", !.resp = a.resp,
                                                !.stored = StoredCode(storage, tokenReqs[i].body),
                                                !.at = now])
  /\ answered' = Null
  /\ UNCHANGED <<reqs, now, rand, arrived, authorizeQuery, codePending, mcp, call>>

\* time passes
Tick ==
  /\ now < MaxTicks * TickMs
  /\ now' = now + TickMs
  /\ resp' = NoResponse
  /\ answered' = Null
  /\ twin' = [twin EXCEPT !.resp = NoResponse]
  /\ UNCHANGED <<storage, reqs, tokenReqs, rand, arrived, authorizeQuery, codePending, mcp, call>>

\* a request for /mcp
McpFetch(request) ==
  /\ mcp' = McpEndpoint(request)
  /\ UNCHANGED <<storage, reqs, tokenReqs, resp, answered, twin, now, rand, arrived,
                 authorizeQuery, codePending, call>>

\* the steps of the authorization flow
Flow ==
  \/ \E body \in RegisterBodies : Register(body)
  \/ \E query \in AuthorizeQueries(rand.client) : Authorize(query)
  \/ \E formData \in SubmitForms(rand.pending), key \in EncryptionKeys : SubmitArrive(formData, key)
  \/ \E i \in 1..Len(reqs), answer \in UpstreamAnswers : Validate(i, answer)
  \/ \E i \in 1..Len(reqs) : PutUser(i)
  \/ \E i \in 1..Len(reqs) : PutCode(i)
  \/ \E i \in 1..Len(reqs) : DeletePending(i)
  \/ Tick

Next ==
  \/ Flow
  \/ \E body \in TokenBodies(rand.code, rand.client) : Token(body)

\* the OAuth endpoints, a token request being answered as it arrives
Spec == Init /\ [][Next]_vars

\* the requests of a client that follows the flow
ExchangeRegisterBodies == { [redirect_uris |-> <<ClaudeAi>>, client_name |-> "Claude"] }

ExchangeQueries(n) ==
  { [response_type |-> "code", client_id |-> generateClientId(n), redirect_uri |-> ClaudeAi,
     state |-> "xyz"] }

ExchangeForms(n) ==
  { [pending_id |-> generatePendingId(n), apple_id |-> AppleIdA, app_password |-> PasswordA] }

NextExchange ==
  \/ \E body \in ExchangeRegisterBodies : Register(body)
  \/ \E query \in ExchangeQueries(rand.client) : Authorize(query)
  \/ \E formData \in ExchangeForms(rand.pending) : SubmitArrive(formData, TEST_ENCRYPTION_KEY)
  \/ \E i \in 1..Len(reqs), answer \in UpstreamAnswers : Validate(i, answer)
  \/ \E i \in 1..Len(reqs) : PutUser(i)
  \/ \E i \in 1..Len(reqs) : PutCode(i)
  \/ \E i \in 1..Len(reqs) : DeletePending(i)
  \/ \E body \in TokenBodies(rand.code, rand.client) : TokenArrive(body)
  \/ \E i \in 1..Len(tokenReqs) : TokenHandle(i)

\* the OAuth endpoints, token requests being in flight together
SpecExchange == Init /\ [][NextExchange]_vars

NextMcp == \E request \in McpRequests : McpFetch(request)

\* the /mcp endpoint
SpecMcp == Init /\ [][NextMcp]_vars

(***************************************************************************)
(* What a response and a stored record show                                *)
(***************************************************************************)
\* the elements of an array
Elements(array) == { array[i] : i \in 1..Len(array) }

\* the strings a response shows to its receiver: the values of a JSON body,
\* the interpolated parts of a page, the parts of a Location, the message of
\* an error
ResponseStrings(r) ==
  CASE r.type = "json" /\ r.status = 201 ->
         {r.body.client_id, r.body.client_secret, r.body.client_name}
           \cup Elements(r.body.redirect_uris)
    [] r.type = "json" /\ r.status # 201 -> {r.body.error, r.body.error_description}
    [] r.type = "html" -> { r.body[part] : part \in DOMAIN r.body }
    [] r.type = "redirect" -> { r.location[part] : part \in DOMAIN r.location }
    [] r.type = "throw" -> {r.error}
    [] OTHER -> {}

\* the strings a stored record holds in the clear; what is sealed is not read
RecordStrings(prefix, record) ==
  CASE prefix = CLIENT_PREFIX ->
         {record.clientId, record.clientSecret, record.clientName}
           \cup Elements(record.redirectUris)
    [] prefix = PENDING_PREFIX -> { record.params[name] : name \in DOMAIN record.params }
    [] prefix = AUTH_CODE_PREFIX ->
         { record[name] : name \in DOMAIN record \ {"expiresAt", "createdAt"} }
    [] prefix = USER_PREFIX -> {record.userId}
    [] OTHER -> {}

ValidExchange(body, record, t) ==
  /\ body.grant_type = "authorization_code"
  /\ record # Null
  /\ t <= record.expiresAt
  /\ body.redirect_uri = record.redirectUri
  /\ body.client_id = record.clientId
  /\ "codeChallenge" \notin DOMAIN record

ReturnsTokens(r) ==
  /\ r.type = "json"
  /\ r.status = 200
  /\ {"access_token", "refresh_token"} \subseteq DOMAIN r.body

ReturnsInvalidGrant(r) ==
  /\ r.type = "json"
  /\ r.status = 400
  /\ r.body.error = "invalid_grant"

\* C2: when a token request is answered, a valid authorization_code exchange
\* of a stored, unexpired code returns 200 with tokens and authcode:<code>
\* is deleted, and an exchange of a code that an earlier request exchanged
\* returns invalid_grant.
C2_CodeExchangedOnce ==
  [][\A i \in 1..Len(tokenReqs) :
       (tokenReqs[i].pc = "received" /\ tokenReqs'[i].pc = "answered") =>
         LET body == tokenReqs[i].body IN
         /\ ValidExchange(body, StoredCode(storage, body), now) =>
              /\ ReturnsTokens(resp')
              /\ Key(AUTH_CODE_PREFIX, body.code) \notin DOMAIN storage'
         /\ (/\ body.grant_type = "authorization_code"
             /\ \E j \in 1..Len(tokenReqs) :
                  /\ tokenReqs[j].pc = "answered"
                  /\ tokenReqs[j].body.grant_type = "authorization_code"
                  /\ tokenReqs[j].body.code = body.code
                  /\ ReturnsTokens(tokenReqs[j].resp)) =>
              ReturnsInvalidGrant(resp')]_vars

\* C3: of two valid authorization_code requests for the same code that were
\* in flight together, at most one returned tokens and one returned
\* invalid_grant.
C3_ConcurrentExchange ==
  \A i, j \in 1..Len(tokenReqs) :
    (/\ i \in tokenReqs[j].overlaps
     /\ tokenReqs[i].pc = "answered"
     /\ tokenReqs[j].pc = "answered"
     /\ ValidExchange(tokenReqs[i].body, tokenReqs[i].stored, tokenReqs[i].at)
     /\ ValidExchange(tokenReqs[j].body, tokenReqs[j].stored, tokenReqs[j].at)
     /\ tokenReqs[i].body.code = tokenReqs[j].body.code) =>
      /\ ~(ReturnsTokens(tokenReqs[i].resp) /\ ReturnsTokens(tokenReqs[j].resp))
      /\ ReturnsInvalidGrant(tokenReqs[i].resp) \/ ReturnsInvalidGrant(tokenReqs[j].resp)

(***************************************************************************)
(* C4                                                                      *)
(***************************************************************************)
\* C4: a request to /mcp is handed to a JSON-RPC handler only when
\* validateToken was called for it and returned a valid result, and the
\* credentials used for it are the ones that result carries.
C4_McpBehindBearerMiddleware ==
  (mcp # Null /\ mcp.routed # NULL) =>
    /\ mcp.validation # Null
    /\ mcp.validation.valid
    /\ mcp.credentials = mcp.validation.credentials

(***************************************************************************)
(* C5                                                                      *)
(***************************************************************************)
\* the submissions whose user record is in the storage
PastPutUser(rq) == rq.pc \in {"put_code", "delete_pending"}

\* C5: in every storage state, appleId and appPassword of every user:<id>
\* record are sealed by encrypt under a key importKey accepts, for a
\* submission in flight the key it was given and the values it submitted, and
\* no record under any prefix holds a submitted Apple ID or app password in
\* the clear.
C5_CiphertextOnlyStorage ==
  /\ \A k \in DOMAIN storage :
       /\ RecordStrings(k[1], storage[k]) \cap Secrets = {}
       /\ k[1] = USER_PREFIX =>
            \A field \in {"appleId", "appPassword"} :
              /\ storage[k][field].sealed
              /\ importKey(storage[k][field].key) = "ok"
  /\ \A i \in 1..Len(reqs) :
       PastPutUser(reqs[i]) =>
         LET record == storage[Key(USER_PREFIX, reqs[i].userId)] IN
         /\ record.appleId.key = reqs[i].encryptionKey
         /\ record.appleId.plaintext = reqs[i].fields.apple_id
         /\ record.appPassword.key = reqs[i].encryptionKey
         /\ record.appPassword.plaintext = reqs[i].fields.app_password

\* a user record sealing the submitted Apple ID is stored beside a client, a
\* pending and an authcode record
C5_Witness ==
  /\ \E k \in DOMAIN storage : k[1] = USER_PREFIX /\ storage[k].appleId.plaintext = AppleIdA
  /\ \E k \in DOMAIN storage : k[1] = AUTH_CODE_PREFIX
  /\ \E k \in DOMAIN storage : k[1] = PENDING_PREFIX

(***************************************************************************)
(* C6                                                                      *)
(***************************************************************************)
\* C6: for any pending id at most one authorization code is minted; a
\* redirect carries a code minted for the pending id submitted (so at most
\* one redirect is returned for it), and after the redirect pending:<id> is
\* absent, so that a further submission of it gets invalid_request.
C6_PendingConsumedOnce ==
  /\ \A c1, c2 \in DOMAIN codePending : codePending[c1] = codePending[c2] => c1 = c2
  /\ (answered # Null /\ resp.type = "redirect") =>
       /\ resp.location.code \in DOMAIN codePending
       /\ codePending[resp.location.code] = answered.pending_id
       /\ Key(PENDING_PREFIX, answered.pending_id) \notin DOMAIN storage

(***************************************************************************)
(* C7                                                                      *)
(***************************************************************************)
\* the client of a query is registered with the query's redirect URI
RegisteredFor(st, query) ==
  /\ Key(CLIENT_PREFIX, query.client_id) \in DOMAIN st
  /\ Includes(st[Key(CLIENT_PREFIX, query.client_id)].redirectUris, query.redirect_uri)

\* C7: through McpServer.fetch every step of the flow is answered as the
\* scenario says: registering https://agent.example/callback returns 201; GET
\* /oauth/authorize of a registered client with its redirect URI and state
\* xyz returns the 200 page of a stored pending id; a submission of a stored
\* pending id that the upstream accepts returns 302 with code and state xyz;
\* POST /oauth/token with a stored code and its redirect URI returns 200 with
\* access_token, refresh_token and token_type "Bearer".
C7_EndToEndFlow ==
  [][/\ \A body \in RegisterBodies :
          (/\ "redirect_uris" \in DOMAIN body
           /\ body.redirect_uris = <<AgentExample>>
           /\ Register(body)) =>
            resp'.status = 201
     /\ \A query \in AuthorizeQueries(rand.client) :
          (/\ DOMAIN query = RequiredParams
           /\ query.state = "xyz"
           /\ RegisteredFor(storage, query)
           /\ Authorize(query)) =>
            /\ resp'.type = "html"
            /\ resp'.status = 200
            /\ Key(PENDING_PREFIX, resp'.body.pending_id) \in DOMAIN storage'
     /\ \A i \in 1..Len(reqs) :
          (/\ reqs[i].pc # "idle"
           /\ reqs[i].encryptionKey = FetchEncryptionKey
           /\ reqs[i].pending.params.state = "xyz"
           /\ answered' # Null
           /\ answered'.request = i
           /\ UpstreamAccepts(answered'.upstream)) =>
            /\ resp'.type = "redirect"
            /\ resp'.status = 302
            /\ resp'.location.url = Href(reqs[i].pending.params.redirect_uri)
            /\ Key(AUTH_CODE_PREFIX, resp'.location.code) \in DOMAIN storage'
            /\ resp'.location.state = "xyz"
     /\ \A body \in TokenBodies(rand.code, rand.client) :
          (/\ Token(body)
           /\ ValidExchange(body, StoredCode(storage, body), now)) =>
            /\ ReturnsTokens(resp')
            /\ "token_type" \in DOMAIN resp'.body
            /\ resp'.body.token_type = "Bearer"]_vars

(***************************************************************************)
(* C8                                                                      *)
(***************************************************************************)
\* C8: a submission of a stored pending id that the upstream accepts is
\* answered with 302; the Location is the pending request's redirect_uri,
\* its code is the key suffix of the authcode: record this submission
\* stored, and its state is the state of the GET /oauth/authorize request
\* that stored the pending record.
C8_RedirectWithCodeAndState ==
  (answered # Null /\ UpstreamAccepts(answered.upstream)) =>
    /\ resp.type = "redirect"
    /\ resp.status = 302
    /\ resp.location.url = Href(answered.params.redirect_uri)
    /\ resp.location.code = answered.code
    /\ Key(AUTH_CODE_PREFIX, resp.location.code) \in DOMAIN storage
    /\ codePending[resp.location.code] = answered.pending_id
    /\ resp.location.state = authorizeQuery[answered.pending_id].state

PendingExpired(record, t) == t > record.createdAt + PENDING_AUTH_EXPIRY_MS

\* C10: a submission of a pending id whose record is stored but older than
\* the TTL is answered 400 invalid_request at once: it does not go on to the
\* upstream call, and so mints no code.
C10_PendingTtl ==
  [][\A formData \in SubmitForms(rand.pending), key \in EncryptionKeys :
       (/\ "pending_id" \in DOMAIN formData
        /\ Key(PENDING_PREFIX, formData.pending_id) \in DOMAIN storage
        /\ PendingExpired(storage[Key(PENDING_PREFIX, formData.pending_id)], now)
        /\ SubmitArrive(formData, key)) =>
         /\ resp'.type = "json"
         /\ resp'.status = 400
         /\ resp'.body.error = "invalid_request"
         /\ reqs' = reqs]_vars

(***************************************************************************)
(* C11, C12                                                                *)
(***************************************************************************)
\* the client a token request names is registered and, if the request
\* carries a secret, the secret is the registered one
ClientAuthenticated(st, body) ==
  /\ Key(CLIENT_PREFIX, body.client_id) \in DOMAIN st
  /\ "client_secret" \in DOMAIN body =>
       body.client_secret = st[Key(CLIENT_PREFIX, body.client_id)].clientSecret

\* the session: keys of a storage
SessionKeys(st) == { k \in DOMAIN st : k[1] = SESSION_PREFIX }

\* C11: an authorization_code exchange by a registered client of a code that
\* is still stored but whose expiresAt is in the past returns 400
\* invalid_grant and creates no session.
C11_ExpiredCodeRejected ==
  [][\A body \in TokenBodies(rand.code, rand.client) :
       (/\ Token(body)
        /\ body.grant_type = "authorization_code"
        /\ ClientAuthenticated(storage, body)
        /\ StoredCode(storage, body) # Null
        /\ StoredCode(storage, body).expiresAt < now) =>
         /\ ReturnsInvalidGrant(resp')
         /\ SessionKeys(storage') = SessionKeys(storage)]_vars

\* C12: an authorization_code exchange by a registered client whose
\* redirect_uri is not the redirectUri of the stored code returns 400
\* invalid_grant and issues no tokens.
C12_RedirectUriMismatchRejected ==
  [][\A body \in TokenBodies(rand.code, rand.client) :
       (/\ Token(body)
        /\ body.grant_type = "authorization_code"
        /\ ClientAuthenticated(storage, body)
        /\ StoredCode(storage, body) # Null
        /\ body.redirect_uri # StoredCode(storage, body).redirectUri) =>
         /\ ReturnsInvalidGrant(resp')
         /\ ~ReturnsTokens(resp')
         /\ SessionKeys(storage') = SessionKeys(storage)]_vars

(***************************************************************************)
(* C13                                                                     *)
(***************************************************************************)
\* base64url, without padding, of the SHA-256 digest of a verifier: a
\* string that only names the verifier
Base64UrlSha256(verifier) == "S256(" \o verifier \o ")"

\* the verifier a token request carries answers the challenge of a code
PkceSatisfied(body, record) ==
  /\ "code_verifier" \in DOMAIN body
  /\ body.code_verifier # ""
  /\ CASE record.codeChallengeMethod = "S256" ->
            Base64UrlSha256(body.code_verifier) = record.codeChallenge
       [] record.codeChallengeMethod = "plain" ->
            body.code_verifier = record.codeChallenge
       [] OTHER -> FALSE

\* C13: an authorization_code exchange by a registered client of a stored
\* code that carries a codeChallenge returns tokens only if the request's
\* code_verifier answers the challenge under the code's method, and returns
\* invalid_grant when the verifier is missing or does not answer it.
C13_PkceEnforced ==
  [][\A body \in TokenBodies(rand.code, rand.client) :
       (/\ Token(body)
        /\ body.grant_type = "authorization_code"
        /\ ClientAuthenticated(storage, body)
        /\ StoredCode(storage, body) # Null
        /\ "codeChallenge" \in DOMAIN StoredCode(storage, body)) =>
         /\ ReturnsTokens(resp') => PkceSatisfied(body, StoredCode(storage, body))
         /\ ~PkceSatisfied(body, StoredCode(storage, body)) => ReturnsInvalidGrant(resp')]_vars

(***************************************************************************)
(* C14, C15, C16                                                           *)
(***************************************************************************)
\* the authcode: keys of a storage
AuthCodeKeys(st) == { k \in DOMAIN st : k[1] = AUTH_CODE_PREFIX }

\* C14: a token request that names an unregistered client, or carries a
\* secret that is not the registered one, returns 401 invalid_client, and
\* no authorization code is consumed and no session written.
C14_ClientValidatedFirst ==
  [][\A body \in TokenBodies(rand.code, rand.client) :
       (Token(body) /\ ~ClientAuthenticated(storage, body)) =>
         /\ resp'.type = "json"
         /\ resp'.status = 401
         /\ resp'.body.error = "invalid_client"
         /\ AuthCodeKeys(storage') = AuthCodeKeys(storage)
         /\ SessionKeys(storage') = SessionKeys(storage)]_vars

\* the sessions of a storage that hold a refresh token
SessionsOfRefreshToken(st, refreshToken) ==
  { k \in SessionKeys(st) : st[k].refreshToken = refreshToken }

\* C15: a refresh_token request of a registered client returns 200 with an
\* access_token that keys no session issued before when its refresh token
\* is the one of a stored session, and 400 invalid_grant when it resolves to
\* no session.
C15_RefreshGrant ==
  [][\A body \in TokenBodies(rand.code, rand.client) :
       (/\ Token(body)
        /\ body.grant_type = "refresh_token"
        /\ ClientAuthenticated(storage, body)) =>
         IF SessionsOfRefreshToken(storage, body.refresh_token) # {}
         THEN /\ resp'.type = "json"
              /\ resp'.status = 200
              /\ "access_token" \in DOMAIN resp'.body
              /\ Key(SESSION_PREFIX, resp'.body.access_token) \notin SessionKeys(storage)
         ELSE ReturnsInvalidGrant(resp')]_vars

\* C16: a token request of a registered client whose grant_type is neither
\* authorization_code nor refresh_token returns 400 unsupported_grant_type.
C16_UnsupportedGrantType ==
  [][\A body \in TokenBodies(rand.code, rand.client) :
       (/\ Token(body)
        /\ ClientAuthenticated(storage, body)
        /\ body.grant_type \notin {"authorization_code", "refresh_token"}) =>
         /\ resp'.type = "json"
         /\ resp'.status = 400
         /\ resp'.body.error = "unsupported_grant_type"]_vars

(***************************************************************************)
(* src/oauth/middleware.ts                                                 *)
(***************************************************************************)
\* the access tokens of the model, and the empty one
AccessTokens == {"at_1", "at_2", "at_3", ""}

\* 'Bearer ' followed by a token
BearerHeader(token) == "Bearer " \o token

\* authHeader?.startsWith('Bearer '), authHeader being NULL when there is no
\* Authorization header
StartsWithBearer(authHeader) == \E token \in AccessTokens : authHeader = BearerHeader(token)

\* authHeader.slice(7)
Slice7(authHeader) == CHOOSE token \in AccessTokens : authHeader = BearerHeader(token)

\* { valid: false, error, status }
InvalidResult(error, status) == [valid |-> FALSE, error |-> error, status |-> status]

\* a check that lets every session pass
SessionExpiredNever(session, t) == FALSE

\* session.expiresAt < Date.now()
SessionExpired(session, t) == session.expiresAt < t

\* a refresh that also pushes the expiry forward
TouchSessionSliding(session, t) == [session EXCEPT !.lastUsedAt = t, !.expiresAt = t + 3600000]

\* { ...session, lastUsedAt: Date.now() }
TouchSession(session, t) == [session EXCEPT !.lastUsedAt = t]

\* validateToken(request, state, encryptionKey) at time t: the storage it
\* leaves and what it returns or throws; putOutcome is "ok" when the put of
\* the session resolves, and else the error it rejects with
validateToken(st, request, encryptionKey, t, putOutcome) ==
  LET authHeader == request.authorization IN
  IF ~StartsWithBearer(authHeader)
  THEN [storage |-> st, result |-> InvalidResult("Missing or invalid Authorization header", 401)]
  ELSE LET token == Slice7(authHeader) IN
  IF Key(SESSION_PREFIX, token) \notin DOMAIN st
  THEN [storage |-> st, result |-> InvalidResult("Invalid token", 401)]
  ELSE LET session == st[Key(SESSION_PREFIX, token)] IN
  IF SessionExpired(session, t)
  THEN [storage |-> st, result |-> InvalidResult("Token expired", 401)]
  ELSE IF Key(USER_PREFIX, session.userId) \notin DOMAIN st
  THEN [storage |-> st, result |-> InvalidResult("User not found", 401)]
  ELSE LET userCredentials == st[Key(USER_PREFIX, session.userId)]
           touched == Put(st, Key(SESSION_PREFIX, token), TouchSession(session, t))
           appleId == decrypt(userCredentials.appleId, encryptionKey)
           appPassword == decrypt(userCredentials.appPassword, encryptionKey)
       IN IF putOutcome # "ok" THEN [storage |-> st, result |-> Thrown(putOutcome)]
          ELSE IF appleId.type = "throw" THEN [storage |-> touched, result |-> appleId]
          ELSE IF appPassword.type = "throw" THEN [storage |-> touched, result |-> appPassword]
          ELSE [storage |-> touched,
                result |-> [valid |-> TRUE,
                            credentials |-> [appleId |-> appleId.plaintext,
                                             appSpecificPassword |-> appPassword.plaintext],
                            userId |-> session.userId]]

\* a session as the token endpoint is to store it: one hour of life
SessionExpiresAt == 3600000
UserSession(userId, accessToken, refreshToken) ==
  [userId |-> userId, accessToken |-> accessToken, refreshToken |-> refreshToken,
   expiresAt |-> SessionExpiresAt, scope |-> DEFAULT_SCOPE, createdAt |-> 0, lastUsedAt |-> 500]

\* the user records validateToken can meet: written by the credential
\* submission under either key, or with one blob damaged afterwards
SeedUsers ==
  LET good(key) == UserCredentials("user_1", AppleIdA, PasswordA, key, 0, 0) IN
  {good(TEST_ENCRYPTION_KEY), good(OTHER_ENCRYPTION_KEY),
   [good(TEST_ENCRYPTION_KEY) EXCEPT !.appleId = Tamper(@)],
   [good(TEST_ENCRYPTION_KEY) EXCEPT !.appPassword = Tamper(@)]}

\* the storages validateToken is called on: the session of at_2 belongs to a
\* user without a record, at_1 has a session or none, user_1 a record or none
SeedStorages ==
  LET base == Put(EmptyStorage, Key(SESSION_PREFIX, "at_2"), UserSession("user_2", "at_2", "rt_2"))
      withSession(st) == Put(st, Key(SESSION_PREFIX, "at_1"), UserSession("user_1", "at_1", "rt_1"))
      withUser(st, user) == Put(st, Key(USER_PREFIX, "user_1"), user)
  IN {base, withSession(base)}
     \cup {withUser(base, user) : user \in SeedUsers}
     \cup {withUser(withSession(base), user) : user \in SeedUsers}

\* the clock at the call: before the expiry, at it, past it
SeedTimes == {1000, SessionExpiresAt, SessionExpiresAt + 1}

\* request.headers.get('Authorization') of the requests validateToken is given
AuthorizationHeaders ==
  {NULL, "Basic dXNlcg==", "Bearer", "bearer at_1"} \cup {BearerHeader(token) : token \in {"at_1", "at_2", "at_3"}}

\* the encryptionKey argument: the key of the deployment, another key, a key
\* of the wrong length, none
ValidationKeys == {TEST_ENCRYPTION_KEY, OTHER_ENCRYPTION_KEY, SHORT_ENCRYPTION_KEY, NULL}

InitValidate ==
  /\ storage \in SeedStorages
  /\ now \in SeedTimes
  /\ reqs = <<>>
  /\ tokenReqs = <<>>
  /\ resp = NoResponse
  /\ answered = Null
  /\ twin = [storage |-> EmptyStorage, reqs |-> <<>>, resp |-> NoResponse]
  /\ rand = [client |-> 0, pending |-> 0, user |-> 0, code |-> 0, iv |-> 0]
  /\ arrived = 0
  /\ authorizeQuery = EmptyStorage
  /\ codePending = EmptyStorage
  /\ mcp = Null
  /\ call = Null

\* a call of validateToken
ValidateToken(authorization, encryptionKey) ==
  LET request == [authorization |-> authorization]
      a == validateToken(storage, request, encryptionKey, now, "ok")
  IN /\ storage' = a.storage
     /\ call' = [fn |-> "validateToken", request |-> request, encryptionKey |-> encryptionKey,
                 before |-> storage, at |-> now, put |-> "ok", result |-> a.result]
     /\ UNCHANGED <<reqs, tokenReqs, resp, answered, twin, now, rand, arrived,
                    authorizeQuery, codePending, mcp>>

NextValidate ==
  \E authorization \in AuthorizationHeaders, encryptionKey \in ValidationKeys :
    ValidateToken(authorization, encryptionKey)

SpecValidate == InitValidate /\ [][NextValidate]_vars

\* the error a put of the Durable Object storage rejects with when the write
\* cannot be done
StorageError == "StorageError"

\* a call of validateToken during which state.storage.put rejects
ValidateTokenPutRejects(authorization, encryptionKey) ==
  LET request == [authorization |-> authorization]
      a == validateToken(storage, request, encryptionKey, now, StorageError)
  IN /\ storage' = a.storage
     /\ call' = [fn |-> "validateToken", request |-> request, encryptionKey |-> encryptionKey,
                 before |-> storage, at |-> now, put |-> StorageError, result |-> a.result]
     /\ UNCHANGED <<reqs, tokenReqs, resp, answered, twin, now, rand, arrived,
                    authorizeQuery, codePending, mcp>>

\* validateToken on a storage whose writes may fail
NextValidateFault ==
  \/ NextValidate
  \/ \E authorization \in AuthorizationHeaders, encryptionKey \in ValidationKeys :
       ValidateTokenPutRejects(authorization, encryptionKey)

SpecValidateFault == InitValidate /\ [][NextValidateFault]_vars

(***************************************************************************)
(* C17                                                                     *)
(***************************************************************************)
\* validateToken has been called: `call` holds its arguments and its result
ValidateCalled == call # Null /\ call.fn = "validateToken"

\* the result is { valid: false, status: 401 }
Rejected401(result) == "valid" \in DOMAIN result /\ ~result.valid /\ result.status = 401

\* the result is { valid: true, ... }
ReturnedValid(result) == "valid" \in DOMAIN result /\ result.valid

\* the error text contains 'expired'
MentionsExpired(error) == error \in {"Token expired", "Session expired", "expired"}

\* the session the bearer token of the call names in storage st, Null if the
\* header carries no bearer token or no session is stored under it
SessionOfCall(st, request) ==
  IF ~StartsWithBearer(request.authorization) THEN Null
  ELSE IF Key(SESSION_PREFIX, Slice7(request.authorization)) \notin DOMAIN st THEN Null
  ELSE st[Key(SESSION_PREFIX, Slice7(request.authorization))]

LiveSessionWithUser ==
  /\ ValidateCalled
  /\ SessionOfCall(call.before, call.request) # Null
  /\ ~(SessionOfCall(call.before, call.request).expiresAt < call.at)
  /\ Key(USER_PREFIX, SessionOfCall(call.before, call.request).userId) \in DOMAIN call.before

\* the user record of the session of the call
UserOfCall == call.before[Key(USER_PREFIX, SessionOfCall(call.before, call.request).userId)]

\* both stored blobs decrypt under the key the call was given
BlobsDecrypt ==
  /\ decrypt(UserOfCall.appleId, call.encryptionKey).type = "ok"
  /\ decrypt(UserOfCall.appPassword, call.encryptionKey).type = "ok"

\* the call returned a valid result for the session's user with the two
\* plaintexts, and storage is the one before the call but for lastUsedAt of
\* the session, which is the time of the call
ValidAndRefreshed ==
  LET session == SessionOfCall(call.before, call.request)
      key == Key(SESSION_PREFIX, Slice7(call.request.authorization))
  IN /\ ReturnedValid(call.result)
     /\ call.result.userId = session.userId
     /\ call.result.credentials =
          [appleId |-> decrypt(UserOfCall.appleId, call.encryptionKey).plaintext,
           appSpecificPassword |-> decrypt(UserOfCall.appPassword, call.encryptionKey).plaintext]
     /\ DOMAIN storage = DOMAIN call.before
     /\ \A k \in DOMAIN storage : k # key => storage[k] = call.before[k]
     /\ storage[key].lastUsedAt = call.at
     /\ storage[key] = [session EXCEPT !.lastUsedAt = call.at]

ServerError500(result) == "valid" \in DOMAIN result /\ ~result.valid /\ result.status = 500

\* the call rejected instead of returning
Escaped(result) == "type" \in DOMAIN result /\ result.type = "throw"

\* C19: when a stored blob does not decrypt under the key of the call (wrong
\* key, damaged blob), the validation reports an internal server error with
\* status 500: not a 401, not a valid result, not an exception that escapes.
C19_DecryptionFailureIs500 ==
  (LiveSessionWithUser /\ ~BlobsDecrypt) =>
    /\ ServerError500(call.result)
    /\ ~Rejected401(call.result)
    /\ ~ReturnedValid(call.result)
    /\ ~Escaped(call.result)

(***************************************************************************)
(* C20                                                                     *)
(***************************************************************************)
\* the response is the 400 OAuth error `error`
IsOAuthError400(r, error) == r.type = "json" /\ r.status = 400 /\ r.body.error = error

\* the pending: records of a storage
PendingRecords(st) == [k \in {k \in DOMAIN st : k[1] = PENDING_PREFIX} |-> st[k]]

\* a required parameter of the query is missing: absent, or present without
\* a value
MissingParameter(query) ==
  \E name \in RequiredParams : name \notin DOMAIN query \/ query[name] = ""

\* C20: GET /oauth/authorize answers 400 invalid_request when one of
\* response_type, client_id, redirect_uri, state is missing; otherwise 400
\* invalid_client when client_id names no registered client; otherwise 400
\* invalid_request when redirect_uri is not one of the client's registered
\* URIs; and in each of these cases it writes no pending: record.
C20_AuthorizeRejections ==
  [][\A query \in AuthorizeQueries(rand.client) :
       Authorize(query) =>
         LET missing == MissingParameter(query)
             unknown == ~missing /\ Key(CLIENT_PREFIX, query.client_id) \notin DOMAIN storage
             unregistered ==
               /\ ~missing
               /\ ~unknown
               /\ query.redirect_uri \notin
                    Elements(storage[Key(CLIENT_PREFIX, query.client_id)].redirectUris)
         IN /\ missing => IsOAuthError400(resp', "invalid_request")
            /\ unknown => IsOAuthError400(resp', "invalid_client")
            /\ unregistered => IsOAuthError400(resp', "invalid_request")
            /\ (missing \/ unknown \/ unregistered) =>
                 PendingRecords(storage') = PendingRecords(storage)]_vars

\* a client is registered and an authorization request with every
\* parameter, naming another client, was answered 400 invalid_client (the
\* answer of handleAuthorize alone), storage holding no pending record
C20_Witness ==
  /\ \E k \in DOMAIN storage : k[1] = CLIENT_PREFIX
  /\ IsOAuthError400(resp, "invalid_client")
  /\ resp.body.error_description = "Unknown client_id"
  /\ PendingRecords(storage) = EmptyStorage

(***************************************************************************)
(* C21                                                                     *)
(***************************************************************************)
\* the fields of the credential form
SubmitFields == {"pending_id", "apple_id", "app_password"}

\* a field of the form is missing or empty, or no record is stored under
\* the pending id of the form
SubmitUnacceptable(st, formData) ==
  \/ \E field \in SubmitFields : field \notin DOMAIN formData \/ formData[field] = ""
  \/ Key(PENDING_PREFIX, formData.pending_id) \notin DOMAIN st

MintedPendingIds == { generatePendingId(i) : i \in 1..MaxRequests }

\* a submission whose credentials the upstream does not accept is answered
\* 200 with the form of the same pending id and the error, storage as it was
RejectionRerendersForm ==
  [][\A i \in 1..Len(reqs), answer \in UpstreamAnswers :
       (Validate(i, answer) /\ ~UpstreamAccepts(answer)) =>
         /\ resp'.type = "html"
         /\ resp'.status = 200
         /\ resp'.body.pending_id = reqs[i].fields.pending_id
         /\ resp'.body.error = "Invalid credentials"
         /\ storage' = storage]_vars

\* a submission of pendingId has just been answered after the upstream
\* refused its credentials
RejectedSubmission(pendingId) ==
  /\ answered # Null
  /\ answered.pending_id = pendingId
  /\ ~UpstreamAccepts(answered.upstream)

\* a submission of pendingId has just been answered after the upstream
\* accepted its credentials
AcceptedSubmission(pendingId) ==
  /\ answered # Null
  /\ answered.pending_id = pendingId
  /\ UpstreamAccepts(answered.upstream)

\* C22: when the upstream refuses the credentials, the submission is
\* answered 200 with the form of the same pending id and an inline error and
\* storage is unchanged; and from then on a submission of the same pending
\* id whose credentials the upstream accepts is answered 302.
C22_RejectionKeepsFlow ==
  /\ RejectionRerendersForm
  /\ \A pendingId \in MintedPendingIds :
       [](RejectedSubmission(pendingId) =>
            [](AcceptedSubmission(pendingId) => (resp.type = "redirect" /\ resp.status = 302)))

(***************************************************************************)
(* C23                                                                     *)
(***************************************************************************)
\* C23: the verification of the submitted credentials returns true when the
\* upstream answers 207 and false for every other answer, a failed
\* transport included; it never throws, so a submission whose upstream
\* answer is not 207 is answered with the form and never with an exception
\* of the verification.
C23_VerificationNeverThrows ==
  [][\A i \in 1..Len(reqs), answer \in UpstreamAnswers :
       Validate(i, answer) =>
         /\ validateICloudCredentials(reqs[i].fields.apple_id, reqs[i].fields.app_password, answer)
              = [type |-> "ok", value |-> (answer = 207)]
         /\ answer # 207 => resp'.type = "html"]_vars

(***************************************************************************)
(* C24                                                                     *)
(***************************************************************************)
\* the awaits of the storage resolve: the runtime goes on with a submission
\* that waits for a put or a delete.  Nothing in the code makes the await of
\* the upstream fetch resolve, so no fairness is asked of Validate.
StorageFairness ==
  \A i \in 1..MaxRequests :
    /\ WF_vars(i <= Len(reqs) /\ PutUser(i))
    /\ WF_vars(i <= Len(reqs) /\ PutCode(i))
    /\ WF_vars(i <= Len(reqs) /\ DeletePending(i))

\* the OAuth endpoints, the storage answering every await
SpecLive == Init /\ [][Next]_vars /\ StorageFairness

\* submission i is in flight
InFlight(i) == i <= Len(reqs) /\ reqs[i] # Idle

\* submission i has been answered
Answered(i) == i <= Len(reqs) /\ reqs[i] = Idle

\* C24: every POST /oauth/authorize that is in flight is eventually answered,
\* whether or not the upstream ever answers the verification call.
C24_SubmitEventuallyAnswered ==
  \A i \in 1..MaxRequests : InFlight(i) ~> Answered(i)

(***************************************************************************)
(* Calls of the exported functions on their own                            *)
(***************************************************************************)
\* the URIs of the model
Uris == {ClaudeAi, ClaudeCom, AgentExample, Localhost, LocalhostUpper, EvilExample, NotAUrl}

\* the lists of at most MaxUris of them
UriLists == UNION { [1..n -> Uris] : n \in 0..MaxUris }

\* validateRedirectUris(uris)
CallValidateRedirectUris(uris) ==
  /\ call' = [fn |-> "validateRedirectUris", uris |-> uris, result |-> validateRedirectUris(uris)]
  /\ UNCHANGED <<storage, reqs, tokenReqs, resp, answered, twin, now, rand, arrived,
                 authorizeQuery, codePending, mcp>>

(***************************************************************************)
(* C25                                                                     *)
(***************************************************************************)
\* the URI parses and is on host localhost, or is https and one of the two
\* callback URLs of Claude
AcceptableRedirectUri(uri) ==
  /\ uri # NotAUrl
  /\ \/ Hostname(uri) = "localhost"
     \/ Protocol(uri) = "https:" /\ uri \in {ClaudeAi, ClaudeCom}

\* C25: validateRedirectUris(uris) is true exactly when uris is not empty
\* and each of its URIs parses and is on host localhost or is https and one
\* of the allow-listed callback URLs: false for [], false for
\* ["http://evil.example/steal"], true for ["http://localhost:3000/cb"],
\* false as soon as one element of a list fails.
C25_ValidateRedirectUris ==
  (call # Null /\ call.fn = "validateRedirectUris") =>
    /\ call.result = (Len(call.uris) > 0 /\ \A uri \in Elements(call.uris) : AcceptableRedirectUri(uri))
    /\ call.uris = <<>> => call.result = FALSE
    /\ call.uris = <<EvilExample>> => call.result = FALSE
    /\ call.uris = <<Localhost>> => call.result = TRUE
    /\ (\E uri \in Elements(call.uris) : ~AcceptableRedirectUri(uri)) => call.result = FALSE

\* a list of three URIs two of which are acceptable was refused
C25_Witness ==
  /\ call # Null
  /\ call.fn = "validateRedirectUris"
  /\ call.uris = <<ClaudeAi, EvilExample, Localhost>>
  /\ call.result = FALSE

(***************************************************************************)
(* C26                                                                     *)
(***************************************************************************)
\* an id no registration returned
NeverRegistered == "00000000-0000-0000-0000-000000000000"

\* C26: a registration answered 201 with client_id C has stored under
\* client:C a record whose clientId is C, whose clientSecret is the
\* client_secret returned and whose redirectUris are the redirect_uris
\* requested; the lookup of C returns that record from then on, and the
\* lookup of an id that was never registered returns null.
C26_RegisteredClientLookup ==
  /\ [](/\ \A i \in 1..rand.client :
             /\ getRegisteredClient(generateClientId(i), storage) # Null
             /\ getRegisteredClient(generateClientId(i), storage).clientId = generateClientId(i)
        /\ getRegisteredClient(generateClientId(rand.client + 1), storage) = Null
        /\ getRegisteredClient(NeverRegistered, storage) = Null)
  /\ [][\A body \in RegisterBodies :
          (Register(body) /\ resp'.type = "json" /\ resp'.status = 201) =>
            /\ Key(CLIENT_PREFIX, resp'.body.client_id) \in DOMAIN storage'
            /\ Key(CLIENT_PREFIX, resp'.body.client_id) \notin DOMAIN storage
            /\ LET client == getRegisteredClient(resp'.body.client_id, storage') IN
               /\ client.clientId = resp'.body.client_id
               /\ client.clientSecret = resp'.body.client_secret
               /\ client.redirectUris = body.redirect_uris]_vars

\* a registration of two redirect URIs was answered 201 and its client is
\* stored with them
C26_Witness ==
  /\ resp.type = "json"
  /\ resp.status = 201
  /\ resp.body.redirect_uris = <<Localhost, LocalhostUpper>>
  /\ getRegisteredClient(resp.body.client_id, storage) # Null
  /\ getRegisteredClient(resp.body.client_id, storage).redirectUris = <<Localhost, LocalhostUpper>>

(***************************************************************************)
(* C27                                                                     *)
(***************************************************************************)
\* the body is no valid registration: not JSON, redirect_uris missing, not a
\* list, empty, or holding a URI that fails the validation
InvalidRegistration(body) ==
  \/ body = NotJson
  \/ "redirect_uris" \notin DOMAIN body
  \/ ~IsArray(body.redirect_uris)
  \/ body.redirect_uris = <<>>
  \/ \E uri \in Elements(body.redirect_uris) : ~AcceptableRedirectUri(uri)

\* the client: records of a storage
ClientRecords(st) == [k \in {k \in DOMAIN st : k[1] = CLIENT_PREFIX} |-> st[k]]

\* C27: POST /oauth/register with a request that is no valid registration
\* is answered 400 with the JSON error invalid_request and writes no
\* client: record.
C27_InvalidRegistrationRejected ==
  [][\A body \in RegisterBodies :
       (Register(body) /\ InvalidRegistration(body)) =>
         /\ IsOAuthError400(resp', "invalid_request")
         /\ ClientRecords(storage') = ClientRecords(storage)]_vars

(***************************************************************************)
(* validateClientCredentials (src/oauth/register.ts)                       *)
(***************************************************************************)
\* where the code runs: the Workers runtime, whose crypto.subtle has
\* timingSafeEqual, or a runtime given the polyfill of the tests
Runtimes == {"workerd", "polyfill"}

\* new TextEncoder().encode(str).byteLength, the strings of the model being ASCII
ByteLength(str) == Len(str)

\* crypto.subtle.timingSafeEqual(a, b): the native one throws a TypeError
\* when the byte lengths differ, the polyfill returns false
timingSafeEqual(a, b, runtime) ==
  IF ByteLength(a) # ByteLength(b)
  THEN IF runtime = "workerd" THEN Thrown("TypeError") ELSE [type |-> "ok", value |-> FALSE]
  ELSE [type |-> "ok", value |-> (a = b)]

\* validateClientCredentials(client, clientSecret)
validateClientCredentials(client, clientSecret, runtime) ==
  timingSafeEqual(client.clientSecret, clientSecret, runtime)

\* registered clients, as handleRegister stores them
SeedClients ==
  { RegisteredClient(generateClientId(n), generateClientSecret(n),
                     [redirect_uris |-> <<ClaudeAi>>], 0) : n \in 1..2 }

\* the candidates: the secrets issued, one of their length never issued,
\* shorter and longer ones, the empty string
CandidateSecrets ==
  { generateClientSecret(n) : n \in 1..3 } \cup {"secret", "secret_1 ", "wrong-secret", ""}

CallValidateClientCredentials(client, clientSecret, runtime) ==
  /\ call' = [fn |-> "validateClientCredentials", client |-> client, clientSecret |-> clientSecret,
              runtime |-> runtime,
              result |-> validateClientCredentials(client, clientSecret, runtime)]
  /\ UNCHANGED <<storage, reqs, tokenReqs, resp, answered, twin, now, rand, arrived,
                 authorizeQuery, codePending, mcp>>

(***************************************************************************)
(* C28                                                                     *)
(***************************************************************************)
\* C28: the verification of a candidate secret returns a boolean for every
\* candidate: true when the candidate is the client's secret, false
\* otherwise, a candidate of another length included; it does not throw.
C28_VerifySecretTotal ==
  (call # Null /\ call.fn = "validateClientCredentials") =>
    call.result = [type |-> "ok", value |-> (call.clientSecret = call.client.clientSecret)]

(***************************************************************************)
(* hasBearerToken (src/oauth/middleware.ts)                                *)
(***************************************************************************)
\* optional whitespace around a header value
Pads == {"", " ", "  "}

\* header values without whitespace at either end
TrimmedHeaders ==
  {"", "Basic dXNlcjpwYXNz", "Bearer", "bearer at_1", "Token at_1"}
    \cup {BearerHeader(token) : token \in {"at_1", "at_2", "at_3"}}

\* the Authorization value a request is built with, NULL for none
RawAuthorizationHeaders ==
  {NULL} \cup {lead \o value \o trail : lead \in Pads, value \in TrimmedHeaders, trail \in Pads}

\* a read of the header as it was given
HeadersGetRaw(value) == value

\* request.headers.get('Authorization'): Headers strips the whitespace at
\* both ends of a value when it is set; null when the header is absent
HeadersGet(value) ==
  IF value = NULL THEN NULL
  ELSE CHOOSE trimmed \in TrimmedHeaders :
         \E lead \in Pads, trail \in Pads : value = lead \o trimmed \o trail

\* hasBearerToken(request): authHeader?.startsWith('Bearer ') ?? false
hasBearerToken(request) ==
  LET authHeader == HeadersGet(request.authorization) IN
  IF authHeader = NULL THEN FALSE ELSE StartsWithBearer(authHeader)

CallHasBearerToken(authorization) ==
  /\ call' = [fn |-> "hasBearerToken", authorization |-> authorization,
              result |-> hasBearerToken([authorization |-> authorization])]
  /\ UNCHANGED <<storage, reqs, tokenReqs, resp, answered, twin, now, rand, arrived,
                 authorizeQuery, codePending, mcp>>

(***************************************************************************)
(* C29                                                                     *)
(***************************************************************************)
\* the header is "Bearer " and a token that is not empty, whitespace around
\* the value aside
BearerWithToken(authorization) ==
  /\ authorization # NULL
  /\ \E lead \in Pads, trail \in Pads, token \in {"at_1", "at_2", "at_3"} :
       authorization = lead \o "Bearer " \o token \o trail

\* C29: hasBearerToken(request) is true exactly when the Authorization
\* header is present, starts with "Bearer " and goes on with a token that
\* is not empty; it is false for a missing header, an empty one, another
\* scheme, and "Bearer " without a token.
C29_HasBearerToken ==
  (call # Null /\ call.fn = "hasBearerToken") =>
    /\ call.result = BearerWithToken(call.authorization)
    /\ call.authorization \in {NULL, "", "Basic dXNlcjpwYXNz", "Bearer "} => call.result = FALSE

\* "Bearer " without a token was refused
C29_Witness ==
  /\ call # Null
  /\ call.fn = "hasBearerToken"
  /\ call.authorization = "Bearer "
  /\ call.result = FALSE

(***************************************************************************)
(* encrypt and decrypt (src/oauth/crypto.ts)                               *)
(***************************************************************************)
\* the plaintexts of the tests, CJK characters and an emoji among them, and
\* the two that UTF-8 changes
Plaintexts ==
  {"", "my-secret-password", "(U+5BC6)(U+7801)123(U+1F510)", "abcd-efgh-ijkl-mnop",
   BomPlaintext, LoneSurrogatePlaintext} \cup Secrets

\* decrypt(await encrypt(plaintext, keyBase64), keyBase64), the nonce being
\* the next one drawn
CallRoundTrip(plaintext, keyBase64) ==
  /\ call' = [fn |-> "roundtrip", plaintext |-> plaintext, keyBase64 |-> keyBase64,
              result |-> IF importKey(keyBase64) # "ok" THEN Thrown(importKey(keyBase64))
                         ELSE decrypt(encrypt(plaintext, keyBase64, rand.iv + 1), keyBase64)]
  /\ UNCHANGED <<storage, reqs, tokenReqs, resp, answered, twin, now, rand, arrived,
                 authorizeQuery, codePending, mcp>>

(***************************************************************************)
(* C30                                                                     *)
(***************************************************************************)
\* C30: for every plaintext, the empty string and strings of multi-byte
\* characters included, and every key of 256 bits, decrypting what encrypt
\* returned, under the same key, gives the plaintext back.
C30_VaultRoundTrip ==
  (call # Null /\ call.fn = "roundtrip" /\ KeyBytes(call.keyBase64) = 32) =>
    call.result = [type |-> "ok", plaintext |-> call.plaintext]

(***************************************************************************)
(* C31                                                                     *)
(***************************************************************************)
\* the plaintexts whose blobs are forged: with the 12 bytes of the nonce and
\* the 16 of the tag they make 28, 30, 32 and 34 bytes
ForgedPlaintexts == {"", "ab", "test", "secret"}

\* the number of "=" that end the base64 string of a blob
Base64Padding(encrypted) == (3 - ((28 + ByteLength(encrypted.plaintext)) % 3)) % 3

\* the numbers of characters cut off the end of the base64 string
SliceChars == {1, 2, 3, 10}

\* Buffer.from(encrypted.slice(0, -chars), 'base64'): the decoder does not
\* ask for the padding, so a string that lost only "=" decodes to the bytes
\* it had, and one that lost more decodes to fewer bytes
Slice(encrypted, chars) ==
  IF chars <= Base64Padding(encrypted) THEN encrypted ELSE Tamper(encrypted)

\* what is done to the blob, or to the key, before decrypt is called
Forgeries ==
  {[kind |-> "wrong key", chars |-> 0], [kind |-> "bit flipped", chars |-> 0]}
    \cup {[kind |-> "truncated", chars |-> chars] : chars \in SliceChars}

\* a key of 256 bits other than the one given
WrongKey(keyBase64) ==
  IF keyBase64 = TEST_ENCRYPTION_KEY THEN OTHER_ENCRYPTION_KEY ELSE TEST_ENCRYPTION_KEY

\* decrypt of a blob of encrypt, under another key or after the blob was
\* changed
CallDecryptForged(plaintext, keyBase64, forgery) ==
  LET encrypted == encrypt(plaintext, keyBase64, rand.iv + 1)
      given == CASE forgery.kind = "wrong key" -> encrypted
                 [] forgery.kind = "bit flipped" -> Tamper(encrypted)
                 [] forgery.kind = "truncated" -> Slice(encrypted, forgery.chars)
      key == IF forgery.kind = "wrong key" THEN WrongKey(keyBase64) ELSE keyBase64
  IN  /\ call' = [fn |-> "decryptForged", plaintext |-> plaintext, keyBase64 |-> keyBase64,
                  forgery |-> forgery, padding |-> Base64Padding(encrypted),
                  result |-> decrypt(given, key)]
      /\ UNCHANGED <<storage, reqs, tokenReqs, resp, answered, twin, now, rand, arrived,
                     authorizeQuery, codePending, mcp>>

UnitKeys ==
  {TEST_ENCRYPTION_KEY, OTHER_ENCRYPTION_KEY, SHORT_ENCRYPTION_KEY, LONG_ENCRYPTION_KEY,
   EMPTY_ENCRYPTION_KEY}

\* await encrypt(plaintext, keyBase64): importKey comes first
CallEncrypt(plaintext, keyBase64) ==
  /\ call' = [fn |-> "encrypt", plaintext |-> plaintext, keyBase64 |-> keyBase64,
              result |-> IF importKey(keyBase64) # "ok" THEN Thrown(importKey(keyBase64))
                         ELSE [type |-> "ok",
                               value |-> encrypt(plaintext, keyBase64, rand.iv + 1)]]
  /\ UNCHANGED <<storage, reqs, tokenReqs, resp, answered, twin, now, rand, arrived,
                 authorizeQuery, codePending, mcp>>

\* the blobs given to decrypt on their own: one made under the test key,
\* and the same with a byte changed
UnitBlobs ==
  {encrypt("secret", TEST_ENCRYPTION_KEY, 1), Tamper(encrypt("secret", TEST_ENCRYPTION_KEY, 1))}

\* await decrypt(encrypted, keyBase64)
CallDecrypt(encrypted, keyBase64) ==
  /\ call' = [fn |-> "decrypt", encrypted |-> encrypted, keyBase64 |-> keyBase64,
              result |-> decrypt(encrypted, keyBase64)]
  /\ UNCHANGED <<storage, reqs, tokenReqs, resp, answered, twin, now, rand, arrived,
                 authorizeQuery, codePending, mcp>>

\* C32: encrypt and decrypt throw, for every key that does not decode to
\* exactly 32 bytes, the error of importKey, which is not the error of a
\* failed decryption, also when the blob would not decrypt either; they
\* return a blob or a plaintext only under a key of 32 bytes.
C32_KeyLengthRejected ==
  (call # Null /\ call.fn \in {"encrypt", "decrypt"}) =>
    /\ KeyBytes(call.keyBase64) # 32 =>
         /\ call.result = Thrown("Encryption key must be 256 bits (32 bytes)")
         /\ call.result # Thrown("OperationError")
    /\ call.result.type = "ok" => KeyBytes(call.keyBase64) = 32

\* decrypt refused a key of 16 bytes for a blob that was changed
C32_Witness ==
  /\ call # Null
  /\ call.fn = "decrypt"
  /\ call.keyBase64 = SHORT_ENCRYPTION_KEY
  /\ ~call.encrypted.sealed
  /\ call.result = Thrown("Encryption key must be 256 bits (32 bytes)")



(***************************************************************************)
(* C33                                                                     *)
(***************************************************************************)
\* await encrypt(plaintext, keyBase64), twice: each call draws its nonce
CallEncryptTwice(plaintext, keyBase64) ==
  /\ rand.iv + 2 <= MaxNonces
  /\ call' = [fn |-> "encryptTwice", plaintext |-> plaintext, keyBase64 |-> keyBase64,
              result |-> IF importKey(keyBase64) # "ok" THEN Thrown(importKey(keyBase64))
                         ELSE [type |-> "ok",
                               encrypted1 |-> encrypt(plaintext, keyBase64, rand.iv + 1),
                               encrypted2 |-> encrypt(plaintext, keyBase64, rand.iv + 2)]]
  /\ rand' = IF importKey(keyBase64) # "ok" THEN rand ELSE [rand EXCEPT !.iv = @ + 2]
  /\ UNCHANGED <<storage, reqs, tokenReqs, resp, answered, twin, now, arrived,
                 authorizeQuery, codePending, mcp>>

\* C33: for every plaintext and every key of 256 bits, two calls of encrypt
\* with that plaintext and that key return different blobs, the nonce each
\* call draws being a new one; both blobs decrypt to the plaintext.
C33_NonceUniqueness ==
  (call # Null /\ call.fn = "encryptTwice" /\ KeyBytes(call.keyBase64) = 32) =>
    /\ call.result.type = "ok"
    /\ call.result.encrypted1 # call.result.encrypted2
    /\ call.result.encrypted1.iv # call.result.encrypted2.iv
    /\ decrypt(call.result.encrypted1, call.keyBase64)
         = decrypt(call.result.encrypted2, call.keyBase64)

\* "secret" was encrypted twice under the test key, after earlier calls
C33_Witness ==
  /\ call # Null
  /\ call.fn = "encryptTwice"
  /\ call.plaintext = "secret"
  /\ call.keyBase64 = TEST_ENCRYPTION_KEY
  /\ call.result.type = "ok"
  /\ call.result.encrypted1.iv > 1

(***************************************************************************)
(* C34                                                                     *)
(***************************************************************************)
\* C34: the write of lastUsedAt is best-effort: when state.storage.put of
\* the session record rejects during a call of validateToken whose token is
\* otherwise valid (session stored and unexpired, user record stored, both
\* blobs decrypt under the key), validateToken still returns a valid result
\* with the session's userId and the decrypted credentials.
C34_LastUsedBestEffort ==
  (LiveSessionWithUser /\ BlobsDecrypt /\ call.put # "ok") =>
    /\ ReturnedValid(call.result)
    /\ call.result.userId = SessionOfCall(call.before, call.request).userId
    /\ call.result.credentials =
         [appleId |-> decrypt(UserOfCall.appleId, call.encryptionKey).plaintext,
          appSpecificPassword |-> decrypt(UserOfCall.appPassword, call.encryptionKey).plaintext]

(***************************************************************************)
(* C35                                                                     *)
(***************************************************************************)
\* the query of the GET /oauth/authorize request the code was minted for
QueryOfCode(code) == authorizeQuery[codePending[code]]

\* C35: every authorization code stored by POST /oauth/authorize has a
\* codeChallenge equal to the code_challenge of the GET /oauth/authorize
\* request it was minted for, and a codeChallengeMethod equal to that
\* request's code_challenge_method when the request had one; when the
\* request had no code_challenge the code has neither of the two fields.
C35_PkceCarriedThrough ==
  \A k \in DOMAIN storage :
    k[1] = AUTH_CODE_PREFIX =>
      /\ k[2] \in DOMAIN codePending
      /\ codePending[k[2]] \in DOMAIN authorizeQuery
      /\ LET query == QueryOfCode(k[2]) IN
         IF Truthy(SearchParam(query, "code_challenge"))
         THEN /\ "codeChallenge" \in DOMAIN storage[k]
              /\ storage[k].codeChallenge = query.code_challenge
              /\ Truthy(SearchParam(query, "code_challenge_method")) =>
                   /\ "codeChallengeMethod" \in DOMAIN storage[k]
                   /\ storage[k].codeChallengeMethod = query.code_challenge_method
         ELSE /\ "codeChallenge" \notin DOMAIN storage[k]
              /\ "codeChallengeMethod" \notin DOMAIN storage[k]

\* a code is stored for a request with the challenge "challenge" and the
\* method "plain"
C35_Witness ==
  \E k \in DOMAIN storage :
    /\ k[1] = AUTH_CODE_PREFIX
    /\ SearchParam(QueryOfCode(k[2]), "code_challenge_method") = "plain"
    /\ storage[k].codeChallenge = "challenge"
    /\ storage[k].codeChallengeMethod = "plain"

(***************************************************************************)
(* C36                                                                     *)
(***************************************************************************)
\* the keys of the user: records of a storage
UserKeys(st) == {k \in DOMAIN st : k[1] = USER_PREFIX}

\* the submissions whose put of the user record is done: those that went on
\* to mint their code, and those that wait to
StoredSubmissions ==
  rand.code + Cardinality({i \in 1..Len(reqs) : reqs[i] # Idle /\ reqs[i].pc = "put_code"})

\* C36: every credential submission the upstream accepted writes its user
\* record under a user id that no record was stored under before, also when
\* the same Apple ID was submitted before; no step of any request changes or
\* removes a stored user: record; and the number of user: records is the
\* number of submissions that have stored their credentials so far.
C36_NewUserEverySubmission ==
  /\ [](Cardinality(UserKeys(storage)) = StoredSubmissions)
  /\ [][/\ \A k \in UserKeys(storage) : k \in DOMAIN storage' /\ storage'[k] = storage[k]
        /\ \A i \in 1..Len(reqs) :
             PutUser(i) =>
               /\ Key(USER_PREFIX, reqs[i].userId) \notin DOMAIN storage
               /\ UserKeys(storage') = UserKeys(storage) \cup {Key(USER_PREFIX, reqs[i].userId)}
               /\ storage'[Key(USER_PREFIX, reqs[i].userId)].userId = reqs[i].userId]_vars

\* two user records are stored for one Apple ID
C36_Witness ==
  \E k1, k2 \in UserKeys(storage) :
    /\ k1 # k2
    /\ storage[k1].appleId.plaintext = AppleIdA
    /\ storage[k2].appleId.plaintext = AppleIdA

(***************************************************************************)
(* C37                                                                     *)
(***************************************************************************)
\* the parameters of a query that the pending record is to hold: the
\* required ones and the optional ones that are not empty
ParsedNames(query) ==
  {name \in DOMAIN query \cap (RequiredParams \cup OptionalParams) : query[name] # ""}

\* C37: a GET /oauth/authorize answered with the 200 HTML form adds exactly
\* one record to storage, under a pending: key that was not stored, made of
\* the parsed parameters of the request and createdAt, the current time; it
\* changes and removes no other record; and the hidden pending_id field of
\* the form is the id of that record.
C37_AuthorizeStoresOnePending ==
  [][\A query \in AuthorizeQueries(rand.client) :
       (Authorize(query) /\ resp'.type = "html" /\ resp'.status = 200) =>
         \E k \in DOMAIN storage' \ DOMAIN storage :
           /\ k[1] = PENDING_PREFIX
           /\ DOMAIN storage' = DOMAIN storage \cup {k}
           /\ \A j \in DOMAIN storage : storage'[j] = storage[j]
           /\ DOMAIN storage'[k] = {"params", "createdAt"}
           /\ storage'[k].createdAt = now
           /\ DOMAIN storage'[k].params = ParsedNames(query)
           /\ \A name \in ParsedNames(query) : storage'[k].params[name] = query[name]
           /\ resp'.body.pending_id = k[2]]_vars

\* the form returned names the second pending record stored
C37_Witness ==
  /\ resp.type = "html"
  /\ resp.status = 200
  /\ resp.body.error = ""
  /\ Key(PENDING_PREFIX, resp.body.pending_id) \in DOMAIN storage
  /\ resp.body.pending_id = generatePrefixedId("pending", 2)
  /\ Cardinality({k \in DOMAIN storage : k[1] = PENDING_PREFIX}) = 2

(***************************************************************************)
(* The endpoints together with the validation of bearer tokens             *)
(***************************************************************************)
\* a storage that holds a session and its user, as a token exchange is to
\* leave them
BearerStorage ==
  Put(Put(EmptyStorage, Key(SESSION_PREFIX, "at_1"), UserSession("user_0", "at_1", "rt_1")),
      Key(USER_PREFIX, "user_0"),
      UserCredentials("user_0", AppleIdA, PasswordA, TEST_ENCRYPTION_KEY, 0, 0))

InitBearer ==
  /\ storage = BearerStorage
  /\ reqs = <<>>
  /\ tokenReqs = <<>>
  /\ resp = NoResponse
  /\ answered = Null
  /\ twin = [storage |-> EmptyStorage, reqs |-> <<>>, resp |-> NoResponse]
  /\ now = 0
  /\ rand = [client |-> 0, pending |-> 0, user |-> 0, code |-> 0, iv |-> 2]
  /\ arrived = 0
  /\ authorizeQuery = EmptyStorage
  /\ codePending = EmptyStorage
  /\ mcp = Null
  /\ call = Null

\* a call of validateToken between the requests of the endpoints
Bearer(authorization, encryptionKey) ==
  LET request == [authorization |-> authorization]
      a == validateToken(storage, request, encryptionKey, now, "ok")
  IN /\ storage' = a.storage
     /\ call' = [fn |-> "validateToken", request |-> request, encryptionKey |-> encryptionKey,
                 put |-> "ok", result |-> a.result]
     /\ UNCHANGED <<reqs, tokenReqs, resp, answered, twin, now, rand, arrived,
                    authorizeQuery, codePending, mcp>>

NextBearer ==
  \/ Next
  \/ \E authorization \in {BearerHeader("at_1"), BearerHeader("at_3")} :
       Bearer(authorization, TEST_ENCRYPTION_KEY)

SpecBearer == InitBearer /\ [][NextBearer]_vars

(***************************************************************************)
(* C38                                                                     *)
(***************************************************************************)
\* C38: once register has written client:<id>, no step of a registration,
\* an authorization request, a credential submission, a token request or a
\* validation of a bearer token changes or removes that record.
C38_RegisteredClientImmutable ==
  [][\A k \in DOMAIN storage :
       k[1] = CLIENT_PREFIX => k \in DOMAIN storage' /\ storage'[k] = storage[k]]_vars

\* a client is registered, a code was minted for it, and a validation of a
\* bearer token has rewritten the session after the clock moved
C38_Witness ==
  /\ \E k \in DOMAIN storage : k[1] = CLIENT_PREFIX
  /\ \E k \in DOMAIN storage : k[1] = AUTH_CODE_PREFIX
  /\ storage[Key(SESSION_PREFIX, "at_1")].lastUsedAt = TickMs

(***************************************************************************)
(* C39                                                                     *)
(***************************************************************************)
\* C39: in every reachable storage, whatever the interleaving of the
\* requests and wherever a request stops between two awaits, the userId of
\* every stored authcode: record is the id of a stored user: record.
C39_CodeNamesStoredUser ==
  \A k \in DOMAIN storage :
    k[1] = AUTH_CODE_PREFIX =>
      /\ Key(USER_PREFIX, storage[k].userId) \in DOMAIN storage
      /\ storage[Key(USER_PREFIX, storage[k].userId)].userId = storage[k].userId

\* a code is stored while another submission has stored its credentials and
\* not yet its code
C39_Witness ==
  /\ \E k \in DOMAIN storage :
       k[1] = AUTH_CODE_PREFIX /\ Key(USER_PREFIX, storage[k].userId) \in DOMAIN storage
  /\ \E i \in 1..Len(reqs) : reqs[i] # Idle /\ reqs[i].pc = "put_code"

(***************************************************************************)
(* C40                                                                     *)
(***************************************************************************)
\* the URI is, as a string, one of the redirect URIs of the client stored
\* under the id, and the list of that client passes validateRedirectUris
RegisteredRedirectUri(st, clientId, uri) ==
  /\ Key(CLIENT_PREFIX, clientId) \in DOMAIN st
  /\ \E i \in 1..Len(st[Key(CLIENT_PREFIX, clientId)].redirectUris) :
       st[Key(CLIENT_PREFIX, clientId)].redirectUris[i] = uri
  /\ validateRedirectUris(st[Key(CLIENT_PREFIX, clientId)].redirectUris)

\* C40: in every state the HTTP operations reach from the empty storage, the
\* clientId of every stored authorization code is the id of a stored client,
\* and its redirectUri is one of the redirect URIs that client registered,
\* a list that passed validateRedirectUris; a 302 of POST /oauth/authorize
\* has as its target the URL of such a registered URI of the client of the
\* request.
C40_CodeNamesRegisteredUri ==
  /\ \A k \in DOMAIN storage :
       k[1] = AUTH_CODE_PREFIX =>
         RegisteredRedirectUri(storage, storage[k].clientId, storage[k].redirectUri)
  /\ (resp.type = "redirect" /\ answered # Null) =>
       /\ resp.status = 302
       /\ RegisteredRedirectUri(storage, answered.params.client_id,
                                answered.params.redirect_uri)
       /\ resp.location.url = Href(answered.params.redirect_uri)

\* a submission was answered with a 302 to the registered localhost URI, and
\* its code is stored
C40_Witness ==
  /\ resp.type = "redirect"
  /\ resp.status = 302
  /\ resp.location.url = Localhost
  /\ Key(AUTH_CODE_PREFIX, resp.location.code) \in DOMAIN storage
  /\ storage[Key(AUTH_CODE_PREFIX, resp.location.code)].redirectUri \in {Localhost, LocalhostUpper}

(***************************************************************************)
(* The exported functions, called on their own                             *)
(***************************************************************************)
NextUnit ==
  \/ \E uris \in UriLists : CallValidateRedirectUris(uris)
  \/ \E client \in SeedClients, clientSecret \in CandidateSecrets, runtime \in Runtimes :
       CallValidateClientCredentials(client, clientSecret, runtime)
  \/ \E authorization \in RawAuthorizationHeaders : CallHasBearerToken(authorization)
  \/ \E plaintext \in Plaintexts, keyBase64 \in ValidationKeys : CallRoundTrip(plaintext, keyBase64)
  \/ \E plaintext \in ForgedPlaintexts, keyBase64 \in {TEST_ENCRYPTION_KEY, OTHER_ENCRYPTION_KEY},
        forgery \in Forgeries :
       CallDecryptForged(plaintext, keyBase64, forgery)
  \/ \E plaintext \in ForgedPlaintexts, keyBase64 \in UnitKeys : CallEncrypt(plaintext, keyBase64)
  \/ \E encrypted \in UnitBlobs, keyBase64 \in UnitKeys : CallDecrypt(encrypted, keyBase64)
  \/ \E plaintext \in ForgedPlaintexts, keyBase64 \in UnitKeys : CallEncryptTwice(plaintext, keyBase64)

SpecUnit == Init /\ [][NextUnit]_vars

====
